---- MODULE Spec2Model ----
(***************************************************************************)
(* Annotation store (AnnotationSource / LocalAnnotationSource), its        *)
(* reference handles, the binary serializer and the pick-offset resolver   *)
(* of the annotation render layer, as state machines.                      *)
(*                                                                         *)
(* Conventions                                                             *)
(*  - a JS Map is a sequence of entries in insertion order;                *)
(*  - a Float32 value is one of the strings of Floats ("NaN" included):    *)
(*    the code only copies, zeroes and encodes floats, it never adds them; *)
(*  - an object with optional fields is a record whose DOMAIN holds the    *)
(*    fields that are present; null is the record Null;                    *)
(*  - a thrown exception is a step that changes nothing but lastOp.        *)
(***************************************************************************)
EXTENDS Integers, Sequences, FiniteSets, TLC

VARIABLES
  source,                 \* the store's construction-time fields (schema, serializer)
  rank_,                  \* AnnotationSource.rank_
  annotationMap,          \* AnnotationSource.annotationMap, in insertion order
  pending,                \* AnnotationSource.pending
  changedCount,           \* AnnotationSource.changed.count
  references,             \* AnnotationSource.references: id -> reference object
  heap,                   \* the AnnotationReference objects: object -> fields
  handle,                 \* the reference object each holder holds (0: none)
  watchableTransform,     \* LocalAnnotationSource.watchableTransform.value
  curCoordinateTransform, \* LocalAnnotationSource.curCoordinateTransform
  generation,             \* AnnotationLayer.generation
  serializedAnnotations,  \* serializedAnnotations of the geometry data that is drawn
  numPickIds,             \* numPickIds of the geometry data that is drawn
  bufferValid,            \* AnnotationGeometryData.bufferValid of a chunk
  segmentationStates,     \* AnnotationLayer.segmentationStates.value
  curRank,                \* the render layer's curRank
  pickIdsPerInstance,     \* pickIdsPerInstance of the render handler of each kind
  drawn,                  \* what the last draw registered with renderContext.pickIDs
  mouseState,             \* the MouseSelectionState updateMouseState writes to
  lastOp                  \* the last call: its outcome and the signals it fired

storeVars == <<source, rank_, annotationMap, pending, changedCount, references,
               heap, handle, watchableTransform, curCoordinateTransform>>
layerVars == <<generation, serializedAnnotations, numPickIds, bufferValid,
               segmentationStates, curRank, pickIdsPerInstance, drawn, mouseState>>
vars == <<storeVars, layerVars, lastOp>>

----------------------------------------------------------------------------
(* Bounds *)

\* changed.count is capped: no operation that dispatches `changed` runs beyond it
MaxChanges == 4

----------------------------------------------------------------------------
(* AnnotationType and the values records are built from *)

POINT == 0
LINE == 1
AXIS_ALIGNED_BOUNDING_BOX == 2
ELLIPSOID == 3

annotationTypes == <<POINT, LINE, AXIS_ALIGNED_BOUNDING_BOX, ELLIPSOID>>

Null == [null |-> TRUE]

Floats == {"0", "1", "2", "3", "NaN"}

\* the parties that hold reference handles
Holders == {"h1", "h2"}

\* ids a caller supplies, and the id makeAnnotationId() draws
SuppliedIds == {"a"}
GeneratedIds == {"g"}
NoId == ""

Min(S) == CHOOSE x \in S : \A y \in S : x <= y

SeqToSet(s) == {s[i] : i \in 1..Len(s)}

----------------------------------------------------------------------------
(* Map<AnnotationId, Annotation> as a sequence in insertion order *)

MapKeys(m) == {m[i].id : i \in 1..Len(m)}

MapHas(m, id) == id \in MapKeys(m)

MapIndex(m, id) == CHOOSE i \in 1..Len(m) : m[i].id = id

MapGet(m, id) == m[MapIndex(m, id)]

\* Map.set: an existing key keeps its position, a new key goes last
MapSet(m, id, ann) ==
  IF MapHas(m, id) THEN [m EXCEPT ![MapIndex(m, id)] = ann] ELSE Append(m, ann)

MapDelete(m, id) == SelectSeq(m, LAMBDA e : e.id # id)

\* a lookup that finds nothing
GetOrNullAbsent(m, id) == Null

\* this.annotationMap.get(id) || null
GetOrNull(m, id) == IF MapHas(m, id) THEN MapGet(m, id) ELSE Null

----------------------------------------------------------------------------
(* Property layout: annotationPropertyTypeHandlers, getPropertyOffsets *)

PropertyTypes ==
  {"rgb", "rgba", "float32", "uint32", "int32", "uint16", "int16", "uint8", "int8"}

\* annotationPropertyTypeHandlers[type].serializedBytes()
PropertySerializedBytes(type) ==
  CASE type = "rgb" -> 3
    [] type \in {"rgba", "float32", "uint32", "int32"} -> 4
    [] type \in {"uint16", "int16"} -> 2
    [] type = "uint8" -> 1
    [] type = "int8" -> 2

\* annotationPropertyTypeHandlers[type].alignment()
PropertyAlignment(type) ==
  CASE type \in {"rgb", "rgba", "uint8", "int8"} -> 1
    [] type \in {"float32", "uint32", "int32"} -> 4
    [] type \in {"uint16", "int16"} -> 2

\* getPropertyOffsets that never pads
PadToNothing(n, a) == 0

\* (a - (n % a)) % a: the padding that brings n to a multiple of a
PadTo(n, a) == (a - (n % a)) % a

\* getPropertyOffsets with an unstable sort: ties in reverse declaration order
SortedPermutationUnstable(propertySpecs) ==
  LET n == Len(propertySpecs)
      idx == [i \in 1..n |-> n + 1 - i]
      Of(al) == SelectSeq(idx, LAMBDA i : PropertyAlignment(propertySpecs[i].type) = al)
  IN Of(4) \o Of(2) \o Of(1)

\* getPropertyOffsets without permutation.sort: the declaration order
SortedPermutationUnsorted(propertySpecs) == [i \in 1..Len(propertySpecs) |-> i]

\* permutation.sort((i, j) => getAlignment(j) - getAlignment(i)): a stable sort by
\* descending alignment, i.e. the indices of alignment 4, then 2, then 1, each
\* group in declaration order
SortedPermutation(propertySpecs) ==
  LET idx == [i \in 1..Len(propertySpecs) |-> i]
      Of(a) == SelectSeq(idx, LAMBDA i : PropertyAlignment(propertySpecs[i].type) = a)
  IN Of(4) \o Of(2) \o Of(1)

RECURSIVE PlacePropertiesByAlignment(_, _, _, _, _)
\* the loop of getPropertyOffsets advancing by the alignment of a property instead
\* of its serializedBytes
PlacePropertiesByAlignment(propertySpecs, permutation, outputIndex, serializedBytes, offsets) ==
  IF outputIndex > Len(permutation)
  THEN [serializedBytes |-> serializedBytes + PadTo(serializedBytes, 4),
        offsets |-> offsets]
  ELSE LET propertyIndex == permutation[outputIndex]
           type == propertySpecs[propertyIndex].type
           at == serializedBytes + PadTo(serializedBytes, PropertyAlignment(type))
       IN PlacePropertiesByAlignment(propertySpecs, permutation, outputIndex + 1,
                                     at + PropertyAlignment(type),
                                     [offsets EXCEPT ![propertyIndex] = at])

RECURSIVE PlaceProperties(_, _, _, _, _)
\* the loop of getPropertyOffsets over outputIndex
PlaceProperties(propertySpecs, permutation, outputIndex, serializedBytes, offsets) ==
  IF outputIndex > Len(permutation)
  THEN [serializedBytes |-> serializedBytes + PadTo(serializedBytes, 4),
        offsets |-> offsets]
  ELSE LET propertyIndex == permutation[outputIndex]
           type == propertySpecs[propertyIndex].type
           at == serializedBytes + PadTo(serializedBytes, PropertyAlignment(type))
       IN PlaceProperties(propertySpecs, permutation, outputIndex + 1,
                          at + PropertySerializedBytes(type),
                          [offsets EXCEPT ![propertyIndex] = at])

getPropertyOffsets(rank, propertySpecs) ==
  PlaceProperties(propertySpecs, SortedPermutation(propertySpecs), 1, 0,
                  [i \in 1..Len(propertySpecs) |-> 0])

\* new AnnotationPropertySerializer(rank, propertySpecs)
AnnotationPropertySerializer(rank, propertySpecs) ==
  [rank |-> rank,
   propertySpecs |-> propertySpecs,
   serializedBytes |-> IF Len(propertySpecs) = 0 THEN 0
                       ELSE getPropertyOffsets(rank, propertySpecs).serializedBytes]

----------------------------------------------------------------------------
(* Geometry kinds: typeHandlers *)

\* the names of the fields holding a kind's geometric vectors
VectorFields(type) ==
  CASE type = POINT -> <<"point">>
    [] type \in {LINE, AXIS_ALIGNED_BOUNDING_BOX} -> <<"pointA", "pointB">>
    [] type = ELLIPSOID -> <<"center", "radii">>

\* typeHandlers.get(type).serializedBytes(rank)
GeometrySerializedBytes(type, rank) ==
  IF type = POINT THEN rank * 4 ELSE 2 * 4 * rank

\* AnnotationType[type].toLowerCase()
TypeName(type) ==
  CASE type = POINT -> "point"
    [] type = LINE -> "line"
    [] type = AXIS_ALIGNED_BOUNDING_BOX -> "axis_aligned_bounding_box"
    [] type = ELLIPSOID -> "ellipsoid"

Has(obj, f) == f \in DOMAIN obj

\* the record obj with its field f set to v (added when absent)
With(obj, f, v) == (f :> v) @@ obj

----------------------------------------------------------------------------
(* JSON form of one annotation: annotationToJson, restoreAnnotation *)

\* description: null is the string NullDescription, undefined an absent field
NullDescription == "<null>"

\* numbers a JSON document may hold where a coordinate is expected
JsonNumbers == Floats \cup {"0.1", "-1"}

\* storing a number into a Float32Array: rounding to the nearest float32
Fround(x) == IF x = "0.1" THEN "0.100000001490116" ELSE x

\* verifyFiniteFloat
IsFiniteFloat(x) == x # "NaN"

\* verifyFiniteNonNegativeFloat
IsFiniteNonNegativeFloat(x) == x \notin {"NaN", "-1"}

\* Uint64 values of the model and Uint64.toString / Uint64.parseString on them
Uint64s == {[low |-> 1, high |-> 0], [low |-> 2, high |-> 0]}
Uint64ToString(x) == IF x.low = 1 THEN "1" ELSE "2"
IsUint64String(str) == str \in {"1", "2"}
Uint64ParseString(str) == [low |-> IF str = "1" THEN 1 ELSE 2, high |-> 0]

MapSeq(s, Op(_)) == [i \in 1..Len(s) |-> Op(s[i])]

AllSeq(s, P(_)) == \A i \in 1..Len(s) : P(s[i])

\* getAnnotationTypeHandler(annotation.type).toJSON(annotation, rank): Array.from of
\* each vector (a float32 read as a number keeps its value)
GeometryToJSON(annotation) ==
  [f \in SeqToSet(VectorFields(annotation.type)) |-> annotation[f]]

annotationToJson(annotation, schema) ==
  LET r0 == [type |-> TypeName(annotation.type), id |-> annotation.id]
              @@ GeometryToJSON(annotation)
      \* result.description = annotation.description || undefined
      r1 == IF Has(annotation, "description")
               /\ annotation.description \notin {"", NullDescription}
            THEN With(r0, "description", annotation.description) ELSE r0
      r2 == IF Has(annotation, "relatedSegments")
               /\ \E i \in 1..Len(annotation.relatedSegments) :
                     Len(annotation.relatedSegments[i]) # 0
            THEN With(r1, "segments",
                      [flat |-> FALSE,
                       items |-> MapSeq(annotation.relatedSegments,
                                        LAMBDA segs : MapSeq(segs, Uint64ToString))])
            ELSE r1
  IN IF Len(schema.properties) # 0
     THEN With(r2, "props", annotation.properties) ELSE r2

\* verifyEnumString(x, AnnotationType): the name in either case
EnumNames ==
  [point |-> POINT, line |-> LINE, axis_aligned_bounding_box |-> AXIS_ALIGNED_BOUNDING_BOX,
   ellipsoid |-> ELLIPSOID, POINT |-> POINT, LINE |-> LINE,
   AXIS_ALIGNED_BOUNDING_BOX |-> AXIS_ALIGNED_BOUNDING_BOX, ELLIPSOID |-> ELLIPSOID]

Thrown == [err |-> TRUE]
Returned(v) == [err |-> FALSE, value |-> v]

\* the 'segments' member of restoreAnnotation without the length passed to
\* expectArray
RestoreSegmentsAnyLength(obj, schema) ==
  LET empty == [i \in 1..Len(schema.relationships) |-> <<>>]
  IN IF ~Has(obj, "segments") THEN Returned(empty)
     ELSE LET a == obj.segments
          IN IF Len(a.items) = 0 THEN Returned(empty)
             ELSE IF Len(schema.relationships) = 1 /\ a.flat
             THEN IF AllSeq(a.items, IsUint64String)
                  THEN Returned(<<MapSeq(a.items, Uint64ParseString)>>)
                  ELSE [err |-> TRUE]
             ELSE IF /\ ~a.flat
                     /\ AllSeq(a.items, LAMBDA segs : AllSeq(segs, IsUint64String))
                  THEN Returned(MapSeq(a.items,
                                       LAMBDA segs : MapSeq(segs, Uint64ParseString)))
                  ELSE [err |-> TRUE]

\* the 'segments' member of restoreAnnotation; segments are [flat, items]: a flat
\* array of id strings, or an array of such arrays
RestoreSegments(obj, schema) ==
  LET empty == [i \in 1..Len(schema.relationships) |-> <<>>]
  IN IF ~Has(obj, "segments") THEN Returned(empty)
     ELSE LET a == obj.segments
          IN IF Len(a.items) = 0 THEN Returned(empty)
             ELSE IF Len(schema.relationships) = 1 /\ a.flat
             THEN IF AllSeq(a.items, IsUint64String)
                  THEN Returned(<<MapSeq(a.items, Uint64ParseString)>>)
                  ELSE Thrown
             ELSE IF /\ ~a.flat
                     /\ Len(a.items) = Len(schema.relationships)
                     /\ AllSeq(a.items, LAMBDA segs : AllSeq(segs, IsUint64String))
                  THEN Returned(MapSeq(a.items,
                                       LAMBDA segs : MapSeq(segs, Uint64ParseString)))
                  ELSE Thrown

\* the 'props' member of restoreAnnotation when it ignores the document's values
RestorePropertiesDefault(obj, schema) ==
  Returned(MapSeq(schema.properties, LAMBDA x : x.default))

\* the 'props' member of restoreAnnotation
RestoreProperties(obj, schema) ==
  IF ~Has(obj, "props")
  THEN Returned(MapSeq(schema.properties, LAMBDA x : x.default))
  ELSE IF Len(obj.props) = Len(schema.properties) THEN Returned(obj.props) ELSE Thrown

\* typeHandlers.get(type).restoreState(annotation, obj, rank): every vector through
\* parseFixedLengthArray(new Float32Array(rank), x, verifyFiniteFloat), the radii of
\* an ellipsoid through verifyFiniteNonNegativeFloat
GeometryRestoreState(annotation, obj, rank) ==
  LET fields == VectorFields(annotation.type)
      Ok(f) == /\ Has(obj, f)
               /\ Len(obj[f]) = rank
               /\ AllSeq(obj[f], LAMBDA x : IF f = "radii"
                                             THEN IsFiniteNonNegativeFloat(x)
                                             ELSE IsFiniteFloat(x))
  IN IF \A i \in 1..Len(fields) : Ok(fields[i])
     THEN Returned([f \in SeqToSet(fields) |-> MapSeq(obj[f], Fround)] @@ annotation)
     ELSE Thrown

\* restoreAnnotation(obj, schema); generated is the id makeAnnotationId() returns
\* when it is called
restoreAnnotation(obj, schema, rank, generated) ==
  IF ~(Has(obj, "type") /\ obj.type \in DOMAIN EnumNames) THEN Thrown
  ELSE IF ~Has(obj, "id") THEN Thrown
  ELSE LET type == EnumNames[obj.type]
           id == IF obj.id = "" THEN generated ELSE obj.id
           relatedSegments == RestoreSegments(obj, schema)
           properties == RestoreProperties(obj, schema)
       IN IF relatedSegments.err \/ properties.err THEN Thrown
          ELSE LET r0 == [id |-> id, relatedSegments |-> relatedSegments.value,
                          properties |-> properties.value, type |-> type]
                   result == IF Has(obj, "description")
                             THEN With(r0, "description", obj.description) ELSE r0
               IN GeometryRestoreState(result, obj, rank)

----------------------------------------------------------------------------
(* LocalAnnotationSource.ensureUpdated *)

\* Array.prototype.indexOf, 0-based, -1 when absent
IndexOf(seq, x) ==
  IF \E i \in 1..Len(seq) : seq[i] = x
  THEN Min({i \in 1..Len(seq) : seq[i] = x}) - 1
  ELSE -1

\* Array.prototype.slice(0, n)
Slice(seq, n) == SubSeq(seq, 1, IF n < Len(seq) THEN n ELSE Len(seq))

\* newToOldDims: per new dimension the 0-based old dimension, or -1
NewToOldDims(transform, cur) ==
  [newDim \in 1..transform.sourceRank |->
     LET oldDim == IndexOf(cur.inputSpace.ids, transform.inputSpace.ids[newDim])
     IN IF oldDim >= cur.sourceRank THEN -1 ELSE oldDim]

\* mapVector: a read past the end of radii is undefined, stored as NaN
mapVector(radii, newToOldDims, sourceRank) ==
  [i \in 1..sourceRank |->
     IF newToOldDims[i] = -1 THEN "0"
     ELSE IF i <= Len(radii) THEN radii[i] ELSE "NaN"]

\* the switch over annotation.type: every vector of the record through mapVector
MigrateAnnotation(annotation, newToOldDims, sourceRank) ==
  [f \in DOMAIN annotation |->
     IF f \in SeqToSet(VectorFields(annotation.type))
     THEN mapVector(annotation[f], newToOldDims, sourceRank)
     ELSE annotation[f]]

\* ensureUpdated() without its two early returns: it re-projects at every call
EnsureUpdatedEveryCall(transform) ==
  LET cur == curCoordinateTransform
      dims == NewToOldDims(transform, cur)
      M(a) == MigrateAnnotation(a, dims, transform.sourceRank)
  IN IF ~source.local
     THEN [dispatched |-> FALSE, rank_ |-> rank_, annotationMap |-> annotationMap,
           heap |-> heap, curCoordinateTransform |-> cur]
     ELSE [dispatched |-> TRUE,
           rank_ |-> transform.sourceRank,
           annotationMap |-> MapSeq(annotationMap, M),
           heap |-> [o \in DOMAIN heap |->
                       IF /\ heap[o].value # [null |-> TRUE]
                          /\ heap[o].value \in SeqToSet(annotationMap)
                       THEN [heap[o] EXCEPT !.value = M(heap[o].value)]
                       ELSE heap[o]],
           curCoordinateTransform |-> transform]

\* ensureUpdated() when watchableTransform.value is `transform`: the fields it
\* leaves behind and whether it dispatched `changed`. The records are changed in
\* place, so a reference whose value is a stored record sees the new vectors. The
\* base class's ensureUpdated is empty.
EnsureUpdated(transform) ==
  LET cur == curCoordinateTransform
      same == [dispatched |-> FALSE, rank_ |-> rank_, annotationMap |-> annotationMap,
               heap |-> heap, curCoordinateTransform |-> cur]
  IN IF ~source.local \/ transform.obj = cur.obj THEN same
     ELSE IF /\ cur.sourceRank = transform.sourceRank
             /\ \/ cur.inputSpace.obj = transform.inputSpace.obj
                \/ Slice(cur.inputSpace.ids, transform.sourceRank)
                     = Slice(transform.inputSpace.ids, transform.sourceRank)
     THEN [same EXCEPT !.curCoordinateTransform = transform]
     ELSE LET dims == NewToOldDims(transform, cur)
              M(a) == MigrateAnnotation(a, dims, transform.sourceRank)
          IN [dispatched |-> TRUE,
              rank_ |-> transform.sourceRank,
              annotationMap |-> MapSeq(annotationMap, M),
              heap |-> [o \in DOMAIN heap |->
                          IF /\ heap[o].value # Null
                             /\ heap[o].value \in SeqToSet(annotationMap)
                          THEN [heap[o] EXCEPT !.value = M(heap[o].value)]
                          ELSE heap[o]],
              curCoordinateTransform |-> transform]

----------------------------------------------------------------------------
(* AnnotationSource: the schema view, the signals, toJSON *)

\* the AnnotationSchema the store passes as `this`
Schema == [rank |-> rank_, relationships |-> source.relationships,
           properties |-> source.properties]

NoRefFired == [o \in {} |-> 0]

\* reference.changed.dispatch() once on each object of S
RefFiredOnce(S) == [o \in S |-> 1]

\* lastOp: the call `op` made by holder `by` (Nobody: not through a holder) about the
\* record id, whether it threw, the store signals it dispatched in order, and how
\* often it dispatched `changed` of each reference object
Nobody == ""

Call(op, by, id, thrown, fired, refFired) ==
  [op |-> op, by |-> by, id |-> id, thrown |-> thrown, fired |-> fired,
   refFired |-> refFired]

\* the `changed` dispatch of ensureUpdated, when it migrated
FiredBy(u) == IF u.dispatched THEN <<"changed">> ELSE <<>>

CountOf(u) == IF u.dispatched THEN changedCount + 1 ELSE changedCount

\* toJSON() without the test `pending.has(annotation.id)`
ToJSONOfAll(m, p, schema) ==
  MapSeq(m, LAMBDA annotation : annotationToJson(annotation, schema))

\* toJSON() on a store whose records and pending set are m and p
ToJSONOf(m, p, schema) ==
  MapSeq(SelectSeq(m, LAMBDA annotation : annotation.id \notin p),
         LAMBDA annotation : annotationToJson(annotation, schema))

\* AnnotationSource.toJSON() in the current state (its ensureUpdated included)
toJSON ==
  LET u == EnsureUpdated(watchableTransform)
  IN ToJSONOf(u.annotationMap, pending,
              [Schema EXCEPT !.rank = u.rank_])

JsonIds(json) == {json[i].id : i \in 1..Len(json)}

----------------------------------------------------------------------------
(* AnnotationSource: getReference and the RefCounted protocol of a handle *)

NewObj == Min((1..(Cardinality(DOMAIN heap) + 1)) \ DOMAIN heap)

\* getReference(id) that never looks the id up: a new handle object at every call
getReferenceUnshared(refs, hp, m, id) ==
  [references |-> (id :> NewObj) @@ [x \in DOMAIN refs \ {id} |-> refs[x]],
   heap |-> (NewObj :> [id |-> id, value |-> GetOrNull(m, id), refCount |-> 1]) @@ hp,
   obj |-> NewObj]

\* getReference(id) that returns `existing` without addRef()
getReferenceNoAddRef(refs, hp, m, id) ==
  IF id \in DOMAIN refs
  THEN [references |-> refs, heap |-> hp, obj |-> refs[id]]
  ELSE [references |-> (id :> NewObj) @@ refs,
        heap |-> (NewObj :> [id |-> id, value |-> GetOrNull(m, id), refCount |-> 1])
                   @@ hp,
        obj |-> NewObj]

\* getReference(id) on the references map refs, the objects hp and the records m:
\* the maps it leaves and the object it returns
getReference(refs, hp, m, id) ==
  IF id \in DOMAIN refs
  THEN \* existing.addRef()
       [references |-> refs,
        heap |-> [hp EXCEPT ![refs[id]].refCount = @ + 1],
        obj |-> refs[id]]
  ELSE [references |-> (id :> NewObj) @@ refs,
        heap |-> (NewObj :> [id |-> id, value |-> GetOrNull(m, id), refCount |-> 1])
                   @@ hp,
        obj |-> NewObj]

Without(f, x) == [y \in DOMAIN f \ {x} |-> f[y]]

\* RefCounted.dispose() of the handle object o: the count drops, and at zero the
\* disposer registered by getReference runs: this.references.delete(id)
ReleaseRef(refs, hp, o) ==
  IF hp[o].refCount = 1
  THEN [references |-> Without(refs, hp[o].id), heap |-> Without(hp, o)]
  ELSE [references |-> refs, heap |-> [hp EXCEPT ![o].refCount = @ - 1]]

----------------------------------------------------------------------------
(* AnnotationSource: the operations *)

\* a listener on source.changed that also drops the layer's snapshot
ChangedListenersDropping ==
  /\ generation' = IF "changed" \in SeqToSet(lastOp'.fired) THEN -1 ELSE generation
  /\ serializedAnnotations' = IF "changed" \in SeqToSet(lastOp'.fired)
                              THEN [undefined |-> TRUE] ELSE serializedAnnotations
  /\ UNCHANGED <<numPickIds, bufferValid, segmentationStates, curRank,
                 pickIdsPerInstance, drawn, mouseState>>

\* the listener AnnotationLayer registers on source.changed,
\* handleChangeAffectingBuffer, run by the dispatches of the operation that wrote
\* lastOp'; no store operation touches anything else of the layer
ChangedListeners ==
  /\ generation' = IF "changed" \in SeqToSet(lastOp'.fired) THEN -1 ELSE generation
  /\ UNCHANGED <<serializedAnnotations, numPickIds, bufferValid, segmentationStates,
                 curRank, pickIdsPerInstance, drawn, mouseState>>

\* add without the test for an existing id
AddRejectsNever(m, annotation) == FALSE

\* update without the test for a deleted reference
UpdateRejectsNever(reference) == FALSE

\* add: `else if (this.annotationMap.has(annotation.id)) throw`
AddRejects(m, annotation) == annotation.id # NoId /\ MapHas(m, annotation.id)

\* update: `if (reference.value === null) throw`
UpdateRejects(reference) == reference.value = Null

\* delete without the test for a deleted reference
DeleteReturnsEarlyNever(reference) == FALSE

\* delete: `if (reference.value === null) return`
DeleteReturnsEarly(reference) == reference.value = Null

\* add(annotation, commit) by holder h, who keeps the returned reference
add(h, annotation, commit, generated) ==
  LET u == EnsureUpdated(watchableTransform)
      id == IF annotation.id = NoId THEN generated ELSE annotation.id
  IN /\ handle[h] = 0
     /\ CountOf(u) < MaxChanges
     /\ rank_' = u.rank_
     /\ curCoordinateTransform' = u.curCoordinateTransform
     /\ IF AddRejects(u.annotationMap, annotation)
        THEN /\ annotationMap' = u.annotationMap
             /\ heap' = u.heap
             /\ changedCount' = CountOf(u)
             /\ UNCHANGED <<pending, references, handle>>
             /\ lastOp' = Call("add", h, id, TRUE, FiredBy(u), NoRefFired)
        ELSE LET m == MapSet(u.annotationMap, id, [annotation EXCEPT !.id = id])
                 r == getReference(references, u.heap, m, id)
             IN /\ annotationMap' = m
                /\ changedCount' = CountOf(u) + 1
                /\ pending' = IF commit THEN pending ELSE pending \cup {id}
                /\ references' = r.references
                /\ heap' = r.heap
                /\ handle' = [handle EXCEPT ![h] = r.obj]
                \* exported: what toJSON() returns to a listener of the two
                \* dispatches, which run before `pending.add`
                /\ lastOp' = With(With(Call("add", h, id, FALSE,
                                            FiredBy(u) \o <<"changed", "childAdded">>,
                                            NoRefFired),
                                       "commit", commit),
                                  "exported",
                                  ToJSONOf(m, pending, [Schema EXCEPT !.rank = u.rank_]))
     /\ UNCHANGED <<source, watchableTransform>>
     /\ ChangedListeners

\* commit(reference) that also dispatches `changed`
commitDispatching(h) ==
  LET id == heap[handle[h]].id
  IN /\ handle[h] # 0
     /\ changedCount < MaxChanges
     /\ pending' = pending \ {id}
     /\ changedCount' = changedCount + 1
     /\ lastOp' = Call("commit", h, id, FALSE, <<"changed">>, NoRefFired)
     /\ UNCHANGED <<source, rank_, annotationMap, heap, watchableTransform,
                    curCoordinateTransform, references, handle>>
     /\ ChangedListeners

\* commit(reference) with the reference holder h holds
commit(h) ==
  LET u == EnsureUpdated(watchableTransform)
      id == heap[handle[h]].id
  IN /\ handle[h] # 0
     /\ CountOf(u) <= MaxChanges
     /\ rank_' = u.rank_
     /\ curCoordinateTransform' = u.curCoordinateTransform
     /\ annotationMap' = u.annotationMap
     /\ heap' = u.heap
     /\ changedCount' = CountOf(u)
     /\ pending' = pending \ {id}
     /\ lastOp' = Call("commit", h, id, FALSE, FiredBy(u), NoRefFired)
     /\ UNCHANGED <<source, watchableTransform, references, handle>>
     /\ ChangedListeners

\* update(reference, annotation) with the reference holder h holds
update(h, annotation) ==
  LET u == EnsureUpdated(watchableTransform)
      o == handle[h]
  IN /\ handle[h] # 0
     /\ CountOf(u) < MaxChanges
     /\ rank_' = u.rank_
     /\ curCoordinateTransform' = u.curCoordinateTransform
     /\ IF UpdateRejects(u.heap[o])
        THEN /\ annotationMap' = u.annotationMap
             /\ heap' = u.heap
             /\ changedCount' = CountOf(u)
             /\ lastOp' = Call("update", h, annotation.id, TRUE, FiredBy(u), NoRefFired)
        ELSE /\ heap' = [u.heap EXCEPT ![o].value = annotation]
             /\ annotationMap' = MapSet(u.annotationMap, annotation.id, annotation)
             /\ changedCount' = CountOf(u) + 1
             /\ lastOp' = Call("update", h, annotation.id, FALSE,
                               FiredBy(u) \o <<"changed", "childUpdated">>,
                               RefFiredOnce({o}))
     /\ UNCHANGED <<source, watchableTransform, pending, references, handle>>
     /\ ChangedListeners

\* delete(reference) with the reference holder h holds (delete does not call
\* ensureUpdated)
delete(h) ==
  LET o == handle[h]
      id == heap[o].id
  IN /\ handle[h] # 0
     /\ changedCount < MaxChanges
     /\ IF DeleteReturnsEarly(heap[o])
        THEN /\ UNCHANGED <<annotationMap, pending, heap, changedCount>>
             /\ lastOp' = Call("delete", h, id, FALSE, <<>>, NoRefFired)
        ELSE /\ heap' = [heap EXCEPT ![o].value = Null]
             /\ annotationMap' = MapDelete(annotationMap, id)
             /\ pending' = pending \ {id}
             /\ changedCount' = changedCount + 1
             /\ lastOp' = Call("delete", h, id, FALSE, <<"changed", "childDeleted">>,
                               RefFiredOnce({o}))
     /\ UNCHANGED <<source, rank_, watchableTransform, curCoordinateTransform,
                    references, handle>>
     /\ ChangedListeners

\* getReference(id) by holder h, who keeps the returned reference
GetReference(h, id) ==
  LET r == getReference(references, heap, annotationMap, id)
  IN /\ handle[h] = 0
     /\ references' = r.references
     /\ heap' = r.heap
     /\ handle' = [handle EXCEPT ![h] = r.obj]
     /\ lastOp' = Call("getReference", h, id, FALSE, <<>>, NoRefFired)
     /\ UNCHANGED <<source, rank_, annotationMap, pending, changedCount,
                    watchableTransform, curCoordinateTransform>>
     /\ ChangedListeners

\* holder h releases its reference: reference.dispose()
Dispose(h) ==
  LET r == ReleaseRef(references, heap, handle[h])
  IN /\ handle[h] # 0
     /\ references' = r.references
     /\ heap' = r.heap
     /\ handle' = [handle EXCEPT ![h] = 0]
     /\ lastOp' = Call("dispose", h, heap[handle[h]].id, FALSE, <<>>, NoRefFired)
     /\ UNCHANGED <<source, rank_, annotationMap, pending, changedCount,
                    watchableTransform, curCoordinateTransform>>
     /\ ChangedListeners

\* clear() without `this.pending.clear()`
clearKeepingPending ==
  /\ changedCount < MaxChanges
  /\ annotationMap' = <<>>
  /\ changedCount' = changedCount + 1
  /\ lastOp' = Call("clear", Nobody, NoId, FALSE, <<"changed">>, NoRefFired)
  /\ UNCHANGED <<source, rank_, pending, references, heap, handle, watchableTransform,
                 curCoordinateTransform>>
  /\ ChangedListeners

\* clear() without `this.changed.dispatch()`
clearSilent ==
  /\ changedCount < MaxChanges
  /\ annotationMap' = <<>>
  /\ pending' = {}
  /\ lastOp' = Call("clear", Nobody, NoId, FALSE, <<>>, NoRefFired)
  /\ UNCHANGED <<source, rank_, references, heap, handle, watchableTransform,
                 curCoordinateTransform, changedCount>>
  /\ ChangedListeners

\* clear()
clear ==
  /\ changedCount < MaxChanges
  /\ annotationMap' = <<>>
  /\ pending' = {}
  /\ changedCount' = changedCount + 1
  /\ lastOp' = Call("clear", Nobody, NoId, FALSE, <<"changed">>, NoRefFired)
  /\ UNCHANGED <<source, rank_, references, heap, handle, watchableTransform,
                 curCoordinateTransform>>
  /\ ChangedListeners


RECURSIVE ParseInto(_, _, _, _, _, _)
\* parseArray(obj, x => { const annotation = restoreAnnotation(x, this);
\*                        annotationMap.set(annotation.id, annotation); })
\* from element i on: the records set so far, and whether an element threw
ParseInto(items, i, m, schema, rank, generated) ==
  IF i > Len(items) THEN [err |-> FALSE, annotationMap |-> m]
  ELSE LET a == restoreAnnotation(items[i], schema, rank, generated)
       IN IF a.err THEN [err |-> TRUE, annotationMap |-> m]
          ELSE ParseInto(items, i + 1, MapSet(m, a.value.id, a.value), schema, rank,
                         generated)

\* restoreState(obj); obj is [defined, items]: undefined, or an array of objects
restoreState(obj, generated) ==
  LET u == EnsureUpdated(watchableTransform)
      parsed == IF obj.defined
                THEN ParseInto(obj.items, 1, <<>>, [Schema EXCEPT !.rank = u.rank_],
                               u.rank_, generated)
                ELSE [err |-> FALSE, annotationMap |-> <<>>]
  IN /\ CountOf(u) < MaxChanges
     /\ rank_' = u.rank_
     /\ curCoordinateTransform' = u.curCoordinateTransform
     /\ annotationMap' = parsed.annotationMap
     /\ pending' = {}
     /\ IF parsed.err
        THEN /\ heap' = u.heap
             /\ changedCount' = CountOf(u)
             /\ lastOp' = With(Call("restoreState", Nobody, NoId, TRUE, FiredBy(u),
                                    NoRefFired), "obj", obj)
        ELSE /\ heap' = [o \in DOMAIN u.heap |->
                           IF o \in {references[id] : id \in DOMAIN references}
                           THEN [u.heap[o] EXCEPT
                                   !.value = GetOrNull(parsed.annotationMap, u.heap[o].id)]
                           ELSE u.heap[o]]
             /\ changedCount' = CountOf(u) + 1
             /\ lastOp' = With(Call("restoreState", Nobody, NoId, FALSE,
                                    FiredBy(u) \o <<"changed">>,
                                    RefFiredOnce({references[id] : id \in DOMAIN references})),
                               "obj", obj)
     /\ UNCHANGED <<source, watchableTransform, references, handle>>
     /\ ChangedListeners

\* watchableTransform takes the value `transform` and dispatches `changed`, whose
\* listener (registered by the constructor) runs ensureUpdated()
TransformChanged(transform) ==
  LET u == EnsureUpdated(transform)
  IN /\ source.local
     /\ transform.obj # watchableTransform.obj
     /\ changedCount < MaxChanges
     /\ watchableTransform' = transform
     /\ rank_' = u.rank_
     /\ curCoordinateTransform' = u.curCoordinateTransform
     /\ annotationMap' = u.annotationMap
     /\ heap' = u.heap
     /\ changedCount' = CountOf(u)
     /\ lastOp' = Call("ensureUpdated", Nobody, NoId, FALSE, FiredBy(u), NoRefFired)
     /\ UNCHANGED <<source, pending, references, handle>>
     /\ ChangedListeners

----------------------------------------------------------------------------
(* Construction and the inputs of the store specification *)

\* a CoordinateSpaceTransform: the object identities stand for `===`
Transform(obj, sourceRank, spaceObj, ids) ==
  [obj |-> obj, sourceRank |-> sourceRank, inputSpace |-> [obj |-> spaceObj, ids |-> ids]]

\* new LocalAnnotationSource(watchableTransform): super(sourceRank, ['segments'])
LocalSource(transform) ==
  [local |-> TRUE, relationships |-> <<"segments">>, properties |-> <<>>,
   annotationPropertySerializer |-> AnnotationPropertySerializer(transform.sourceRank, <<>>)]

\* new AnnotationSource(rank, relationships, properties)
PlainSource(rank, relationships, properties) ==
  [local |-> FALSE, relationships |-> relationships, properties |-> properties,
   annotationPropertySerializer |-> AnnotationPropertySerializer(rank, properties)]

Ramp(rank) == [i \in 1..rank |-> <<"1", "2", "3", "1">>[i]]
Zeros(rank) == [i \in 1..rank |-> "0"]

Point(id, point, properties) ==
  [type |-> POINT, id |-> id, point |-> point, properties |-> properties]

TwoVectors(type, id, va, vb, properties) ==
  [type |-> type, id |-> id, properties |-> properties]
    @@ (VectorFields(type)[1] :> va) @@ (VectorFields(type)[2] :> vb)

DefaultProperties == MapSeq(source.properties, LAMBDA x : x.default)

\* the records a caller hands to add and update in the store specification
StoreAnnotations(id) ==
  {Point(id, Ramp(rank_), DefaultProperties),
   With(With(TwoVectors(LINE, id, Ramp(rank_), Zeros(rank_), DefaultProperties),
             "description", "d"),
        "relatedSegments",
        [i \in 1..Len(source.relationships) |-> <<[low |-> 1, high |-> 0]>>])}

\* the documents handed to restoreState in the store specification: nothing, the
\* export of a record, and a document whose second element lacks its geometry
StoreDocuments ==
  LET doc(id) == annotationToJson(Point(id, Ramp(rank_), DefaultProperties), Schema)
  IN {[defined |-> FALSE, items |-> <<>>],
      [defined |-> TRUE, items |-> <<doc("a")>>],
      [defined |-> TRUE, items |-> <<doc("g"), [type |-> "line", id |-> "a"]>>]}

StoreRank == 2

InitTransform == Transform(0, StoreRank, 0, <<"x", "y", "z">>)

InitStore(src, transform) ==
  /\ source = src
  /\ rank_ = transform.sourceRank
  /\ annotationMap = <<>>
  /\ pending = {}
  /\ changedCount = 0
  /\ references = [id \in {} |-> 0]
  /\ heap = [o \in {} |-> Null]
  /\ handle = [h \in Holders |-> 0]
  /\ watchableTransform = transform
  /\ curCoordinateTransform = transform
  /\ lastOp = Call("new", Nobody, NoId, FALSE, <<>>, NoRefFired)


----------------------------------------------------------------------------
(* Binary form: DataView writes, property and geometry codecs, serializeAnnotations *)

\* the four bytes of a float32, most significant first
Float32Bits(x) ==
  CASE x = "0" -> <<0, 0, 0, 0>>
    [] x = "1" -> <<63, 128, 0, 0>>
    [] x = "2" -> <<64, 0, 0, 0>>
    [] x = "3" -> <<64, 64, 0, 0>>
    [] x = "-1" -> <<191, 128, 0, 0>>
    [] x = "0.100000001490116" -> <<61, 204, 204, 205>>
    [] x = "NaN" -> <<127, 192, 0, 0>>

Reverse(s) == [i \in 1..Len(s) |-> s[Len(s) + 1 - i]]

RECURSIVE Pow2(_)
Pow2(n) == IF n = 0 THEN 1 ELSE 2 * Pow2(n - 1)

\* the n bytes of the integer v reduced modulo 2^(8n), most significant first
IntBits(v, n) == [i \in 1..n |-> ((v % Pow2(8 * n)) \div Pow2(8 * (n - i))) % 256]

InOrder(bits, isLittleEndian) == IF isLittleEndian THEN Reverse(bits) ELSE bits

\* DataView.set*: the bytes of data from the 0-based offset on are replaced (every
\* write of the serializer lies within the buffer it allocated)
WriteBytes(data, offset, bytes) ==
  SubSeq(data, 1, offset) \o bytes \o SubSeq(data, offset + Len(bytes) + 1, Len(data))

\* annotationPropertyTypeHandlers[type].serializeCode: the bytes written at the
\* property's offset (rgb and rgba always little-endian; int8 writes one byte)
PropertyBytes(type, value, isLittleEndian) ==
  CASE type = "rgb" -> InOrder(IntBits(value, 2), TRUE) \o IntBits(value \div 65536, 1)
    [] type = "rgba" -> InOrder(IntBits(value, 4), TRUE)
    [] type = "float32" -> InOrder(Float32Bits(value), isLittleEndian)
    [] type \in {"uint32", "int32"} -> InOrder(IntBits(value, 4), isLittleEndian)
    [] type \in {"uint16", "int16"} -> InOrder(IntBits(value, 2), isLittleEndian)
    [] type \in {"uint8", "int8"} -> IntBits(value, 1)

RECURSIVE SerializeProperty(_, _, _, _, _, _)
\* AnnotationPropertySerializer.serialize: the generated statements, property by
\* property from propertyIndex on
SerializeProperty(data, offset, isLittleEndian, serializer, properties, propertyIndex) ==
  IF propertyIndex > Len(serializer.propertySpecs) THEN data
  ELSE SerializeProperty(
         WriteBytes(data,
                    offset + getPropertyOffsets(serializer.rank, serializer.propertySpecs)
                               .offsets[propertyIndex],
                    PropertyBytes(serializer.propertySpecs[propertyIndex].type,
                                  properties[propertyIndex], isLittleEndian)),
         offset, isLittleEndian, serializer, properties, propertyIndex + 1)

serializeProperties(data, offset, isLittleEndian, serializer, properties) ==
  SerializeProperty(data, offset, isLittleEndian, serializer, properties, 1)

RECURSIVE SerializeComponent(_, _, _, _, _, _)
\* the loop of serializeFloatVector from component i (1-based) on; vec[i] past the
\* end of vec is undefined and setFloat32 stores NaN
SerializeComponent(data, offset, isLittleEndian, rank, vec, i) ==
  IF i > rank THEN [data |-> data, offset |-> offset]
  ELSE SerializeComponent(
         WriteBytes(data, offset,
                    InOrder(Float32Bits(IF i <= Len(vec) THEN vec[i] ELSE "NaN"),
                            isLittleEndian)),
         offset + 4, isLittleEndian, rank, vec, i + 1)

\* serializeFloatVector that returns the offset it was given
serializeFloatVectorInPlace(data, offset, isLittleEndian, rank, vec) ==
  [data |-> SerializeComponent(data, offset, isLittleEndian, rank, vec, 1).data,
   offset |-> offset]

serializeFloatVector(data, offset, isLittleEndian, rank, vec) ==
  SerializeComponent(data, offset, isLittleEndian, rank, vec, 1)

\* typeHandlers.get(type).serialize: one vector for a point, serializeTwoFloatVectors
\* for the other kinds
GeometrySerialize(data, offset, isLittleEndian, rank, annotation) ==
  LET fields == VectorFields(annotation.type)
      one == serializeFloatVector(data, offset, isLittleEndian, rank,
                                  annotation[fields[1]])
  IN IF Len(fields) = 1 THEN one.data
     ELSE serializeFloatVector(one.data, one.offset, isLittleEndian, rank,
                               annotation[fields[2]]).data

\* DataView.get*: the n bytes of data from the 0-based offset on
ReadBytes(data, offset, n) == SubSeq(data, offset + 1, offset + n)

\* DataView.getFloat32 of four bytes, most significant first: the float32 with that
\* bit pattern (an exponent of all ones with a nonzero fraction reads as NaN)
Float32Value(bits) ==
  CASE bits = <<0, 0, 0, 0>> -> "0"
    [] bits = <<63, 128, 0, 0>> -> "1"
    [] bits = <<64, 0, 0, 0>> -> "2"
    [] bits = <<64, 64, 0, 0>> -> "3"
    [] bits = <<191, 128, 0, 0>> -> "-1"
    [] bits = <<61, 204, 204, 205>> -> "0.100000001490116"
    [] bits[1] % 128 = 127 /\ bits[2] >= 128 /\ (bits[2] % 128) + bits[3] + bits[4] > 0 -> "NaN"
    [] OTHER -> "other"

\* deserializeFloatVector(buffer, offset, isLittleEndian, rank, vec): the vector it
\* fills and the offset it returns
deserializeFloatVector(data, offset, isLittleEndian, rank) ==
  [vec |-> [i \in 1..rank |->
              Float32Value(InOrder(ReadBytes(data, offset + 4 * (i - 1), 4),
                                   isLittleEndian))],
   offset |-> offset + 4 * rank]

\* typeHandlers.get(type).deserialize(buffer, offset, isLittleEndian, rank, id): one
\* vector for a point, deserializeTwoFloatVectors for the other kinds
GeometryDeserialize(data, offset, isLittleEndian, rank, type, id) ==
  LET fields == VectorFields(type)
      one == deserializeFloatVector(data, offset, isLittleEndian, rank)
      two == deserializeFloatVector(data, one.offset, isLittleEndian, rank)
      base == [type |-> type, id |-> id, properties |-> <<>>]
  IN IF Len(fields) = 1 THEN With(base, fields[1], one.vec)
     ELSE With(With(base, fields[1], one.vec), fields[2], two.vec)

\* AnnotationSerializer.add that puts each record in front of its kind's list
PartitionByTypeReversed(annotations) ==
  [t \in 1..Len(annotationTypes) |->
     Reverse(SelectSeq(annotations, LAMBDA a : a.type = annotationTypes[t]))]

\* AnnotationSerializer.add, record by record: annotations[annotation.type].push
\* (kind t has index t + 1)
PartitionByType(annotations) ==
  [t \in 1..Len(annotationTypes) |->
     SelectSeq(annotations, LAMBDA a : a.type = annotationTypes[t])]

\* the stride of a record without serializedPropertiesBytes
SerializedStrideGeometryOnly(t, serializer) ==
  GeometrySerializedBytes(annotationTypes[t], serializer.rank)

\* geometryBytes + serializedPropertiesBytes of one record of the kind with index t
SerializedStride(t, serializer) ==
  GeometrySerializedBytes(annotationTypes[t], serializer.rank) + serializer.serializedBytes

RECURSIVE TotalBytesAfter(_, _, _)
\* totalBytes after the first loop of serializeAnnotations has handled t kinds
TotalBytesAfter(t, allAnnotations, serializer) ==
  IF t = 0 THEN 0
  ELSE LET total == TotalBytesAfter(t - 1, allAnnotations, serializer)
                      + SerializedStride(t, serializer) * Len(allAnnotations[t])
       IN total + PadTo(total, 4)

\* the value of `offset` when the second loop of serializeAnnotations serializes the
\* record with 0-based index k of the kind with index t
SerializeOffset(t, k, allAnnotations, serializer) ==
  TotalBytesAfter(t - 1, allAnnotations, serializer) + k * SerializedStride(t, serializer)

\* the bytes the body of the second loop writes for one record, from the record's
\* offset on: serialize(dataView, offset, ...) and, geometryBytes further,
\* serializeProperties(dataView, offset, ...); they lie within the record's stride
SerializeRecord(annotation, serializer, isLittleEndian) ==
  LET geometryBytes == GeometrySerializedBytes(annotation.type, serializer.rank)
      zero == [i \in 1..(geometryBytes + serializer.serializedBytes) |-> 0]
  IN serializeProperties(
       GeometrySerialize(zero, 0, isLittleEndian, serializer.rank, annotation),
       geometryBytes, isLittleEndian, serializer, annotation.properties)

RECURSIVE SerializeKind(_, _, _, _)
\* the inner loop of the second loop of serializeAnnotations from record k (1-based)
\* of one kind on: the records' bytes one after the other, offset advancing by
\* geometryBytes + serializedPropertiesBytes
SerializeKind(annotations, k, serializer, isLittleEndian) ==
  IF k > Len(annotations) THEN <<>>
  ELSE SerializeRecord(annotations[k], serializer, isLittleEndian)
         \o SerializeKind(annotations, k + 1, serializer, isLittleEndian)

\* new ArrayBuffer(totalBytes) after the second loop of serializeAnnotations: the
\* records of each kind from typeToOffset of the kind on, and zero from their end
\* to the offset of the next kind
SerializeRecords(allAnnotations, serializer, isLittleEndian) ==
  LET bytes(t) ==
        LET written == SerializeKind(allAnnotations[t], 1, serializer, isLittleEndian)
            size == TotalBytesAfter(t, allAnnotations, serializer)
                      - TotalBytesAfter(t - 1, allAnnotations, serializer)
        IN written \o [i \in 1..(size - Len(written)) |-> 0]
  IN bytes(1) \o bytes(2) \o bytes(3) \o bytes(4)

\* new Map(annotations.map((x, i) => [x.id, i])): the last index wins
LastIndex(annotations, id) ==
  CHOOSE i \in 1..Len(annotations) :
    /\ annotations[i].id = id
    /\ \A j \in (i + 1)..Len(annotations) : annotations[j].id # id

\* serializeAnnotations(allAnnotations, propertySerializer): the SerializedAnnotations;
\* typeToIdMaps holds the 0-based index of each id
serializeAnnotations(allAnnotations, propertySerializer, isLittleEndian) ==
  LET kinds == 1..Len(annotationTypes)
  IN [data |-> SerializeRecords(allAnnotations, propertySerializer, isLittleEndian),
      typeToIds |-> [t \in kinds |-> MapSeq(allAnnotations[t], LAMBDA x : x.id)],
      typeToOffset |-> [t \in kinds |->
                          TotalBytesAfter(t - 1, allAnnotations, propertySerializer)],
      typeToIdMaps |-> [t \in kinds |->
                          [id \in MapKeys(allAnnotations[t]) |->
                             LastIndex(allAnnotations[t], id) - 1]]]

----------------------------------------------------------------------------
(* AnnotationLayer: the segmentation filter and the cached snapshot *)

Undefined == [undefined |-> TRUE]

IsUndefined(x) == Has(x, "undefined")

\* segmentationFilter(segmentationStates) applied to one record; segmentationStates is
\* Undefined or [value |-> array], an element of the array being Null (null or
\* undefined) or a state with its visibleSegments. segmentEquivalences.get maps every
\* segment to itself (no equivalences are set up).
segmentationFilter(states, annotation) ==
  \/ IsUndefined(states)
  \/ /\ Has(annotation, "relatedSegments")
     /\ \E i \in 1..Len(annotation.relatedSegments) :
          /\ i <= Len(states.value)
          /\ Has(states.value[i], "visibleSegments")
          /\ \E k \in 1..Len(annotation.relatedSegments[i]) :
               annotation.relatedSegments[i][k] \in states.value[i].visibleSegments

\* serializeAnnotationSet that leaves out the records whose id is pending
serializeAnnotationSetCommitted(m, propertySerializer, states) ==
  serializeAnnotations(
    PartitionByType(SelectSeq(m, LAMBDA annotation :
                                  /\ annotation.id \notin pending
                                  /\ segmentationFilter(states, annotation))),
    propertySerializer, TRUE)

\* serializeAnnotationSet(annotationSet, filter) on the records m of the store, in
\* iteration order (ENDIANNESS is little-endian)
serializeAnnotationSet(m, propertySerializer, states) ==
  serializeAnnotations(
    PartitionByType(SelectSeq(m, LAMBDA annotation :
                                  segmentationFilter(states, annotation))),
    propertySerializer, TRUE)

RECURSIVE SumTo(_, _)
\* f[1] + ... + f[n]
SumTo(f, n) == IF n = 0 THEN 0 ELSE SumTo(f, n - 1) + f[n]

\* computeNumPickIds(serializedAnnotations): pickIdsPerInstance times the number of
\* ids, summed over the kinds
computeNumPickIds(snapshot, perInstance) ==
  SumTo([t \in 1..Len(annotationTypes) |-> perInstance[t] * Len(snapshot.typeToIds[t])],
        Len(annotationTypes))

\* segmentationStates takes a new value (or visibleSegments of one of its states
\* changes): handleChangeAffectingBuffer
SegmentationStatesChanged(states) ==
  /\ states # segmentationStates
  /\ segmentationStates' = states
  /\ generation' = -1
  /\ lastOp' = Call("segmentationStates", Nobody, NoId, FALSE, <<"redrawNeeded">>,
                    NoRefFired)
  /\ UNCHANGED <<storeVars, serializedAnnotations, numPickIds, bufferValid, curRank,
                 pickIdsPerInstance, drawn, mouseState>>

----------------------------------------------------------------------------
(* The render layer: drawGeometry and updateMouseState *)

\* maxCount: Number.POSITIVE_INFINITY or a finite count
Infinity == [finite |-> FALSE]
Finite(n) == [finite |-> TRUE, value |-> n]

\* Math.round(count * Math.min(1, maxCount / totalCount)) for totalCount > 0 (the
\* double arithmetic gives this integer for every totalCount below 22)
DrawCount(count, maxCount, totalCount) ==
  IF ~maxCount.finite \/ maxCount.value >= totalCount THEN count
  ELSE (2 * count * maxCount.value + totalCount) \div (2 * totalCount)

RECURSIVE BasePickIdAfter(_, _, _, _)
\* context.basePickId (relative to the registered pickId) after the loop of
\* drawGeometry has handled t kinds
BasePickIdAfter(t, snapshot, perInstance, maxCount) ==
  IF t = 0 THEN 0
  ELSE LET sizes == [k \in 1..Len(annotationTypes) |->
                       Cardinality(DOMAIN snapshot.typeToIdMaps[k])]
           totalCount == SumTo(sizes, Len(annotationTypes))
           before == BasePickIdAfter(t - 1, snapshot, perInstance, maxCount)
       IN IF sizes[t] > 0
          THEN before + DrawCount(sizes[t], maxCount, totalCount) * perInstance[t]
          ELSE before

\* drawGeometry(chunk, renderContext, state, maxCount): per kind the context handed
\* to renderHelpers[annotationType].draw (count 0: the kind is not drawn)
drawGeometry(snapshot, perInstance, maxCount) ==
  LET sizes == [k \in 1..Len(annotationTypes) |->
                  Cardinality(DOMAIN snapshot.typeToIdMaps[k])]
      totalCount == SumTo(sizes, Len(annotationTypes))
  IN [t \in 1..Len(annotationTypes) |->
        [count |-> IF sizes[t] > 0 THEN DrawCount(sizes[t], maxCount, totalCount) ELSE 0,
         bufferOffset |-> snapshot.typeToOffset[t],
         basePickId |-> BasePickIdAfter(t - 1, snapshot, perInstance, maxCount)]]

\* the registration renderContext.pickIDs.register(this, chunk.numPickIds, 0, 0, chunk)
\* and the contexts drawn under it; typeToIds is the id list the draw enumerated
NoDraw == [registered |-> FALSE]

Registered(count, contexts, snapshot) ==
  [registered |-> TRUE, numPickIds |-> count, contexts |-> contexts,
   typeToIds |-> snapshot.typeToIds]

\* AnnotationRenderHelper.draw(context): instance i of the count instances drawn from
\* bufferOffset on takes the pick ids basePickId + i * pickIdsPerInstance + part. The
\* instances to which the draw d assigned the pick offset
DrawnAt(d, perInstance, offset) ==
  {[annotationType |-> annotationTypes[t],
    instanceIndex |-> (offset - d.contexts[t].basePickId) \div perInstance[t],
    id |-> d.typeToIds[t][((offset - d.contexts[t].basePickId) \div perInstance[t]) + 1]] :
     t \in {k \in 1..Len(annotationTypes) :
              /\ d.contexts[k].basePickId <= offset
              /\ offset < d.contexts[k].basePickId
                            + d.contexts[k].count * perInstance[k]}}

RECURSIVE ResolveFrom(_, _, _, _, _, _)
\* the loop of updateMouseState from the kind with index t on: the fields it writes,
\* or Undefined when the loop ends without a match
ResolveFrom(t, pickedOffset, snapshot, perInstance, rank, propertySerializer) ==
  IF t > Len(annotationTypes) THEN Undefined
  ELSE LET ids == snapshot.typeToIds[t]
       IN IF pickedOffset < Len(ids) * perInstance[t]
          THEN LET instanceIndex == pickedOffset \div perInstance[t]
               IN [annotationType |-> annotationTypes[t],
                   instanceIndex |-> instanceIndex,
                   \* ids[instanceIndex]
                   pickedAnnotationId |-> ids[instanceIndex + 1],
                   pickedOffset |-> pickedOffset % perInstance[t],
                   \* serializedAnnotations.data.byteOffset is 0
                   pickedAnnotationBufferOffset |->
                     snapshot.typeToOffset[t]
                       + instanceIndex
                           * (GeometrySerializedBytes(annotationTypes[t], rank)
                                + propertySerializer.serializedBytes)]
          ELSE ResolveFrom(t + 1, pickedOffset - Len(ids) * perInstance[t], snapshot,
                           perInstance, rank, propertySerializer)

\* draw whose updateBuffer serializes without comparing generation
drawAlways(emitPickID) ==
  LET u == EnsureUpdated(watchableTransform)
      stale == TRUE
      snapshot == IF stale
                  THEN serializeAnnotationSet(u.annotationMap,
                                              source.annotationPropertySerializer,
                                              segmentationStates)
                  ELSE serializedAnnotations
      count == IF stale THEN computeNumPickIds(snapshot, pickIdsPerInstance)
               ELSE numPickIds
  IN /\ CountOf(u) <= MaxChanges
     /\ rank_' = u.rank_
     /\ curCoordinateTransform' = u.curCoordinateTransform
     /\ annotationMap' = u.annotationMap
     /\ heap' = u.heap
     /\ changedCount' = CountOf(u)
     /\ curRank' = u.rank_
     /\ IF u.rank_ = 0
        THEN UNCHANGED <<generation, serializedAnnotations, numPickIds, drawn>>
        ELSE /\ generation' = CountOf(u)
             /\ serializedAnnotations' = snapshot
             /\ numPickIds' = count
             /\ drawn' = IF emitPickID
                         THEN Registered(count,
                                         drawGeometry(snapshot, pickIdsPerInstance,
                                                      Infinity),
                                         snapshot)
                         ELSE drawn
     /\ lastOp' = With(Call("draw", Nobody, NoId, FALSE, FiredBy(u), NoRefFired),
                       "serialized", u.rank_ # 0 /\ stale)
     /\ UNCHANGED <<source, pending, references, handle, watchableTransform,
                    bufferValid, segmentationStates, pickIdsPerInstance, mouseState>>

\* NonSpatiallyIndexedAnnotationRenderLayer.draw of a store-backed layer, its
\* attachment state being valid: handleRankChanged, base.updateBuffer(), drawGeometry
draw(emitPickID) ==
  LET u == EnsureUpdated(watchableTransform)
      stale == u.dispatched \/ generation # CountOf(u)
      snapshot == IF stale
                  THEN serializeAnnotationSet(u.annotationMap,
                                              source.annotationPropertySerializer,
                                              segmentationStates)
                  ELSE serializedAnnotations
      count == IF stale THEN computeNumPickIds(snapshot, pickIdsPerInstance)
               ELSE numPickIds
  IN /\ CountOf(u) <= MaxChanges
     /\ rank_' = u.rank_
     /\ curCoordinateTransform' = u.curCoordinateTransform
     /\ annotationMap' = u.annotationMap
     /\ heap' = u.heap
     /\ changedCount' = CountOf(u)
     /\ curRank' = u.rank_
     /\ IF u.rank_ = 0
        THEN UNCHANGED <<generation, serializedAnnotations, numPickIds, drawn>>
        ELSE /\ generation' = CountOf(u)
             /\ serializedAnnotations' = snapshot
             /\ numPickIds' = count
             /\ drawn' = IF emitPickID
                         THEN Registered(count,
                                         drawGeometry(snapshot, pickIdsPerInstance,
                                                      Infinity),
                                         snapshot)
                         ELSE drawn
     /\ lastOp' = With(Call("draw", Nobody, NoId, FALSE, FiredBy(u), NoRefFired),
                       "serialized", u.rank_ # 0 /\ stale)
     /\ UNCHANGED <<source, pending, references, handle, watchableTransform,
                    bufferValid, segmentationStates, pickIdsPerInstance, mouseState>>

\* drawGeometryChunkData(chunk, renderContext, state, maxCount) of a chunk of a
\* spatially indexed source
drawGeometryChunkData(maxCount, emitPickID) ==
  LET count == IF bufferValid THEN numPickIds
               ELSE computeNumPickIds(serializedAnnotations, pickIdsPerInstance)
  IN /\ ~IsUndefined(serializedAnnotations)
     /\ numPickIds' = count
     /\ bufferValid' = TRUE
     /\ drawn' = IF emitPickID
                 THEN Registered(count,
                                 drawGeometry(serializedAnnotations, pickIdsPerInstance,
                                              maxCount),
                                 serializedAnnotations)
                 ELSE drawn
     /\ lastOp' = Call("drawGeometryChunkData", Nobody, NoId, FALSE, <<>>, NoRefFired)
     /\ UNCHANGED <<storeVars, generation, serializedAnnotations, segmentationStates,
                    curRank, pickIdsPerInstance, mouseState>>

\* updateMouseState(mouseState, pickedValue, pickedOffset, data): data is the object
\* the draw registered, read as it is now; chunkTransform has no error
updateMouseState(pickedOffset) ==
  LET r == ResolveFrom(1, pickedOffset, serializedAnnotations, pickIdsPerInstance,
                       curRank, source.annotationPropertySerializer)
  IN /\ drawn.registered
     /\ pickedOffset \in 0..(drawn.numPickIds - 1)
     /\ ~IsUndefined(serializedAnnotations)
     /\ mouseState' = IF IsUndefined(r) THEN mouseState
                      ELSE [pickedAnnotationId |-> r.pickedAnnotationId,
                            pickedOffset |-> r.pickedOffset,
                            pickedAnnotationBufferOffset |-> r.pickedAnnotationBufferOffset]
     /\ lastOp' = With(With(Call("updateMouseState", Nobody, NoId, FALSE, <<>>,
                                 NoRefFired),
                            "pickedOffset", pickedOffset),
                       "resolved", r)
     /\ UNCHANGED <<storeVars, generation, serializedAnnotations, numPickIds,
                    bufferValid, segmentationStates, curRank, pickIdsPerInstance, drawn>>

----------------------------------------------------------------------------
(* Specifications *)

\* pickIdsPerInstance of the render handlers of the four kinds
PickIdsTables == {<<1, 1, 1, 1>>, <<1, 3, 2, 1>>}

\* a layer that has drawn nothing
InitLayer(rank, perInstance) ==
  /\ generation = -1
  /\ serializedAnnotations = Undefined
  /\ numPickIds = 0
  /\ bufferValid = FALSE
  /\ segmentationStates = Undefined
  /\ curRank = rank
  /\ pickIdsPerInstance = perInstance
  /\ drawn = NoDraw
  /\ mouseState = Undefined

(* The store alone *)

Init ==
  /\ InitStore(LocalSource(InitTransform), InitTransform)
  /\ InitLayer(StoreRank, <<1, 3, 2, 1>>)

AllIds == SuppliedIds \cup GeneratedIds

Next ==
  \/ \E h \in Holders, id \in SuppliedIds \cup {NoId}, commitFlag \in BOOLEAN,
        generated \in GeneratedIds \ MapKeys(annotationMap) :
       \E annotation \in StoreAnnotations(id) :
         add(h, annotation, commitFlag, generated)
  \/ \E h \in Holders : commit(h)
  \/ \E h \in Holders, id \in AllIds :
       \E annotation \in StoreAnnotations(id) : update(h, annotation)
  \/ \E h \in Holders : delete(h)
  \/ \E h \in Holders, id \in AllIds : GetReference(h, id)
  \/ \E h \in Holders : Dispose(h)
  \/ clear
  \/ \E obj \in StoreDocuments, generated \in GeneratedIds :
       restoreState(obj, generated)

Spec == Init /\ [][Next]_vars

(* A local store and the AnnotationLayer on it, filtered and drawn *)

LayerRank == 3

LayerIds == <<"x", "y", "z", "t">>

InitLayerTransform == Transform(0, LayerRank, 0, LayerIds)

\* the values of segmentationStates: no filter, a relationship that shows no matches,
\* and a segmentation that shows segment 1
SegmentationStateValues ==
  {Undefined, [value |-> <<Null>>],
   [value |-> <<[visibleSegments |-> {[low |-> 1, high |-> 0]}]>>]}

LayerInit ==
  /\ InitStore(LocalSource(InitLayerTransform), InitLayerTransform)
  /\ InitLayer(LayerRank, <<1, 3, 2, 1>>)

LayerNext ==
  \/ \E commitFlag \in BOOLEAN :
       \/ \E annotation \in StoreAnnotations("a") :
            add("h1", annotation, commitFlag, "g")
       \/ /\ ~MapHas(annotationMap, "g")
          /\ \E annotation \in StoreAnnotations(NoId) :
               add("h2", annotation, commitFlag, "g")
  \/ \E h \in Holders : commit(h)
  \/ \E h \in Holders : delete(h)
  \/ \E states \in SegmentationStateValues : SegmentationStatesChanged(states)
  \/ \E emitPickID \in BOOLEAN : draw(emitPickID)

SpecLayer == LayerInit /\ [][LayerNext]_vars

(* A local store that is drawn between the operations that change it *)

SnapshotNext ==
  \/ \E id \in SuppliedIds \cup {NoId} :
       \E annotation \in StoreAnnotations(id) : add("h1", annotation, TRUE, "g")
  \/ \E id \in AllIds :
       \E annotation \in StoreAnnotations(id) : update("h1", annotation)
  \/ delete("h1")
  \/ Dispose("h1")
  \/ clear
  \/ \E obj \in StoreDocuments : restoreState(obj, "g")
  \/ draw(TRUE)

SpecSnapshot == LayerInit /\ [][SnapshotNext]_vars

(* A local store whose coordinate space changes, drawn and picked *)

\* the values watchableTransform takes, each an object of its own: a middle
\* dimension dropped, the rank cut within the same coordinate space, and the rank and
\* the dimensions of the construction in a new object
LayerTransforms ==
  {Transform(1, LayerRank - 1, 1, <<"x", "z", "t">>),
   Transform(2, LayerRank - 1, 0, LayerIds),
   Transform(3, LayerRank, 0, LayerIds)}

RankNext ==
  \/ \E annotation \in StoreAnnotations("a") : add("h1", annotation, TRUE, "g")
  \/ /\ ~MapHas(annotationMap, "g")
     /\ \E annotation \in StoreAnnotations(NoId) : add("h2", annotation, TRUE, "g")
  \/ \E transform \in LayerTransforms : TransformChanged(transform)
  \/ draw(TRUE)
  \/ \E pickedOffset \in IF drawn.registered THEN 0..(drawn.numPickIds - 1) ELSE {} :
       updateMouseState(pickedOffset)

SpecRank == LayerInit /\ [][RankNext]_vars

(* One chunk of a spatially indexed source, drawn and picked *)

MaxPerKind == 2

MaxDrawCount == 3

MaxCounts == {Infinity} \cup {Finite(n) : n \in 0..MaxDrawCount}

ChunkProperties == <<[identifier |-> "p", type |-> "uint8", default |-> 7]>>

\* the id and the record with index k of the kind with index t in a chunk
ChunkId(t, k) == <<<<"p1", "p2", "p3">>, <<"l1", "l2", "l3">>, <<"b1", "b2", "b3">>,
                   <<"e1", "e2", "e3">>>>[t][k]

ChunkRecord(t, k) ==
  IF annotationTypes[t] = POINT THEN Point(ChunkId(t, k), Ramp(StoreRank), <<7>>)
  ELSE TwoVectors(annotationTypes[t], ChunkId(t, k), Ramp(StoreRank), Zeros(StoreRank),
                  <<7>>)

RECURSIVE ChunkAnnotationsFrom(_, _, _)
ChunkAnnotationsFrom(n, t, k) ==
  IF t > Len(annotationTypes) THEN <<>>
  ELSE IF k > n[t] THEN ChunkAnnotationsFrom(n, t + 1, 1)
  ELSE <<ChunkRecord(t, k)>> \o ChunkAnnotationsFrom(n, t, k + 1)

\* the records of a chunk that holds n[t] records of the kind with index t
ChunkAnnotations(n) == ChunkAnnotationsFrom(n, 1, 1)

PickInit ==
  /\ InitStore(PlainSource(StoreRank, <<>>, ChunkProperties), InitTransform)
  /\ generation = -1
  /\ \E n \in [1..Len(annotationTypes) -> 0..MaxPerKind] :
       serializedAnnotations =
         serializeAnnotations(PartitionByType(ChunkAnnotations(n)),
                              AnnotationPropertySerializer(StoreRank, ChunkProperties),
                              TRUE)
  /\ numPickIds = 0
  /\ bufferValid = FALSE
  /\ segmentationStates = Undefined
  /\ curRank = StoreRank
  /\ pickIdsPerInstance \in PickIdsTables
  /\ drawn = NoDraw
  /\ mouseState = Undefined

PickNext ==
  \/ \E maxCount \in MaxCounts, emitPickID \in BOOLEAN :
       drawGeometryChunkData(maxCount, emitPickID)
  \/ \E pickedOffset \in IF drawn.registered THEN 0..(drawn.numPickIds - 1) ELSE {} :
       updateMouseState(pickedOffset)

SpecPick == PickInit /\ [][PickNext]_vars

----------------------------------------------------------------------------
(* A layer shared by two panels: one draws with pick ids, the other without *)

\* the store changes between the draw of the panel that registers pick ids, the
\* draws of the other panel (emitPickID false here) and the handling of a pick
TwoPanelNext ==
  \/ \E annotation \in StoreAnnotations("a") : add("h1", annotation, TRUE, "g")
  \/ /\ ~MapHas(annotationMap, "g")
     /\ \E annotation \in StoreAnnotations(NoId) : add("h2", annotation, TRUE, "g")
  \/ \E h \in Holders : delete(h)
  \/ \E h \in Holders : Dispose(h)
  \/ \E emitPickID \in BOOLEAN : draw(emitPickID)
  \/ \E pickedOffset \in IF drawn.registered THEN 0..(drawn.numPickIds - 1) ELSE {} :
       updateMouseState(pickedOffset)

SpecTwoPanel == LayerInit /\ [][TwoPanelNext]_vars

----------------------------------------------------------------------------
(* A local store whose transform is replaced by equal and by different ones *)

\* the values watchableTransform takes: LayerTransforms, and a new object with a
\* new input space that has the dimension identities of the first over its rank
MigrationTransforms ==
  LayerTransforms \cup {Transform(4, LayerRank - 1, 2, <<"x", "z", "y">>)}

MigrationNext ==
  \/ \E annotation \in StoreAnnotations("a") : add("h1", annotation, TRUE, "g")
  \/ /\ ~MapHas(annotationMap, "g")
     /\ \E annotation \in StoreAnnotations(NoId) : add("h2", annotation, TRUE, "g")
  \/ \E transform \in MigrationTransforms : TransformChanged(transform)
  \/ draw(TRUE)

SpecMigration == LayerInit /\ [][MigrationNext]_vars

----------------------------------------------------------------------------
(* A store of some schema, exported with toJSON and restored with restoreState *)

\* the schemas: rank, relationships and properties handed to the constructor
JsonSchemas ==
  {[rank |-> 1, relationships |-> <<>>, properties |-> <<>>],
   [rank |-> StoreRank, relationships |-> <<"segments">>,
    properties |-> <<[identifier |-> "p", type |-> "uint8", default |-> 7]>>],
   [rank |-> StoreRank, relationships |-> <<"r1", "r2">>, properties |-> <<>>]}

\* the records a caller hands to add: valid for the schema of the store
JsonAnnotations(id) ==
  LET n == Len(source.relationships)
      one == [low |-> 1, high |-> 0]
      two == [low |-> 2, high |-> 0]
      other == MapSeq(source.properties, LAMBDA x : 9)
      mixed == [i \in 1..rank_ |-> IF i = 1 THEN "0.100000001490116" ELSE "-1"]
  IN IF id = NoId
     THEN {With(With(TwoVectors(LINE, id, Ramp(rank_), mixed, other), "description", "d"),
                "relatedSegments", [i \in 1..n |-> IF i = 1 THEN <<one>> ELSE <<>>]),
           With(With(TwoVectors(ELLIPSOID, id, mixed, Zeros(rank_), DefaultProperties),
                     "description", ""),
                "relatedSegments", [i \in 1..n |-> <<>>])}
     ELSE {Point(id, Ramp(rank_), DefaultProperties),
           With(With(TwoVectors(AXIS_ALIGNED_BOUNDING_BOX, id, Zeros(rank_), Ramp(rank_),
                                other),
                     "description", NullDescription),
                "relatedSegments", [i \in 1..n |-> <<two, one>>])}

\* the documents handed to restoreState: nothing, the export of the store itself, a
\* document with a repeated id and a missing one, and a document whose second
\* element lacks its geometry
JsonDocuments ==
  LET doc(id) == annotationToJson(Point(id, Zeros(rank_), DefaultProperties), Schema)
      box(id) == annotationToJson(TwoVectors(AXIS_ALIGNED_BOUNDING_BOX, id, Ramp(rank_),
                                             Ramp(rank_), DefaultProperties), Schema)
  IN {[defined |-> FALSE, items |-> <<>>],
      [defined |-> TRUE, items |-> toJSON],
      [defined |-> TRUE, items |-> <<box("a"), doc(""), doc("a")>>],
      [defined |-> TRUE, items |-> <<doc("a"), [type |-> "line", id |-> "g"]>>]}

JsonInit ==
  \E schema \in JsonSchemas :
    /\ InitStore(PlainSource(schema.rank, schema.relationships, schema.properties),
                 Transform(0, schema.rank, 0, <<"x", "y", "z">>))
    /\ InitLayer(schema.rank, <<1, 3, 2, 1>>)

JsonNext ==
  \/ \E id \in SuppliedIds \cup {NoId}, commitFlag \in BOOLEAN,
        generated \in GeneratedIds \ MapKeys(annotationMap) :
       \E annotation \in JsonAnnotations(id) :
         add("h1", annotation, commitFlag, generated)
  \/ commit("h1")
  \/ Dispose("h1")
  \/ \E id \in AllIds : GetReference("h2", id)
  \/ \E obj \in JsonDocuments, generated \in GeneratedIds :
       restoreState(obj, generated)

SpecJson == JsonInit /\ [][JsonNext]_vars

----------------------------------------------------------------------------
(* A local store filled by the layer: restoreState, then the legacy points *)

\* the ranks of the transform the layer's data source hands to the local store
ImportRanks == {1, StoreRank, 3}

\* IsFiniteFloat on every component of an array of 3: verify3dVec(x)
Is3dVec(x) == Len(x) = 3 /\ \A i \in 1..3 : x[i] # "NaN"

RECURSIVE AddPoints(_, _, _)
\* parseArray(obj, (x, i) => annotations.add({type: POINT, id: '' + i,
\*                                            point: verify3dVec(x), properties: []}))
\* from element i on; s holds the store's maps, the signals fired and the throw
AddPoints(items, i, s) ==
  IF i > Len(items) \/ s.thrown THEN s
  ELSE LET id == <<"0", "1", "2">>[i]
           fresh == Min((1..(Cardinality(DOMAIN s.heap) + 1)) \ DOMAIN s.heap)
       IN IF ~Is3dVec(items[i]) \/ MapHas(s.annotationMap, id)
          THEN [s EXCEPT !.thrown = TRUE]
          ELSE LET m == MapSet(s.annotationMap, id, Point(id, items[i], <<>>))
               IN AddPoints(items, i + 1,
                    [annotationMap |-> m,
                     references |-> IF id \in DOMAIN s.references THEN s.references
                                    ELSE (id :> fresh) @@ s.references,
                     heap |-> IF id \in DOMAIN s.references
                              THEN [s.heap EXCEPT ![s.references[id]].refCount = @ + 1]
                              ELSE (fresh :> [id |-> id, value |-> GetOrNull(m, id),
                                              refCount |-> 1]) @@ s.heap,
                     fired |-> s.fired \o <<"changed", "childAdded">>,
                     thrown |-> FALSE])

\* addPointAnnotations(annotations, obj): every add of the loop, the references the
\* adds return being dropped by the callback
addPointAnnotations(obj) ==
  LET u == EnsureUpdated(watchableTransform)
      s == AddPoints(obj.items, 1,
                     [annotationMap |-> u.annotationMap, references |-> references,
                      heap |-> u.heap, fired |-> <<>>, thrown |-> FALSE])
  IN /\ changedCount + Len(obj.items) + 1 <= MaxChanges
     /\ IF ~obj.defined
        THEN /\ UNCHANGED <<rank_, curCoordinateTransform, annotationMap, references,
                            heap, changedCount>>
             /\ lastOp' = With(Call("addPointAnnotations", Nobody, NoId, FALSE, <<>>,
                                    NoRefFired), "obj", obj)
        ELSE /\ rank_' = u.rank_
             /\ curCoordinateTransform' = u.curCoordinateTransform
             /\ annotationMap' = s.annotationMap
             /\ references' = s.references
             /\ heap' = s.heap
             /\ changedCount' = CountOf(u) + (Len(s.fired) \div 2)
             /\ lastOp' = With(Call("addPointAnnotations", Nobody, NoId, s.thrown,
                                    FiredBy(u) \o s.fired, NoRefFired), "obj", obj)
     /\ UNCHANGED <<source, pending, handle, watchableTransform>>
     /\ ChangedListeners

\* the values of the layer specification's `points` member
PointDocuments ==
  {[defined |-> FALSE, items |-> <<>>],
   [defined |-> TRUE, items |-> <<Ramp(3)>>],
   [defined |-> TRUE, items |-> <<Zeros(3), Ramp(3)>>],
   [defined |-> TRUE, items |-> <<Ramp(3), Ramp(2)>>]}

ImportInit ==
  \E rank \in ImportRanks :
    LET transform == Transform(0, rank, 0, <<"x", "y", "z">>)
    IN /\ InitStore(LocalSource(transform), transform)
       /\ InitLayer(rank, <<1, 3, 2, 1>>)

ImportNext ==
  \/ \E obj \in StoreDocuments : restoreState(obj, "g")
  \/ \E obj \in PointDocuments : addPointAnnotations(obj)
  \/ \E id \in SuppliedIds \cup {NoId}, commitFlag \in BOOLEAN :
       \E annotation \in StoreAnnotations(id) : add("h1", annotation, commitFlag, "g")
  \/ \E id \in AllIds :
       \E annotation \in StoreAnnotations(id) : update("h1", annotation)
  \/ delete("h1")
  \/ Dispose("h1")
  \/ clear

SpecImport == ImportInit /\ [][ImportNext]_vars

----------------------------------------------------------------------------
(* restoreState on documents with well-formed and malformed props and segments *)

\* the values of a document's `props` member; not defined: the member is absent
PropsMembers ==
  {[defined |-> FALSE, items |-> <<>>]}
    \cup {[defined |-> TRUE, items |-> props] : props \in {<<>>, <<9>>, <<9, 9>>}}

\* the values of a document's `segments` member: absent, an empty array, flat
\* lists of ids, and arrays of lists
SegmentsMembers ==
  {[defined |-> FALSE, flat |-> FALSE, items |-> <<>>],
   [defined |-> TRUE, flat |-> FALSE, items |-> <<>>],
   [defined |-> TRUE, flat |-> TRUE, items |-> <<"1">>],
   [defined |-> TRUE, flat |-> TRUE, items |-> <<"1", "2">>],
   [defined |-> TRUE, flat |-> FALSE, items |-> <<<<"1">>>>],
   [defined |-> TRUE, flat |-> FALSE, items |-> <<<<"2">>, <<>>>>],
   [defined |-> TRUE, flat |-> FALSE, items |-> <<<<>>, <<>>, <<"1">>>>]}

\* the documents: one point record with each props and each segments member
RestoreDocuments ==
  LET base == [type |-> "point", id |-> "a", point |-> Zeros(rank_)]
      withProps(x, props) ==
        IF props.defined THEN With(x, "props", props.items) ELSE x
      withSegments(x, segs) ==
        IF segs.defined
        THEN With(x, "segments", [flat |-> segs.flat, items |-> segs.items]) ELSE x
  IN {[defined |-> TRUE, items |-> <<withSegments(withProps(base, props), segs)>>] :
        props \in PropsMembers, segs \in SegmentsMembers}

RestoreNext ==
  \/ \E obj \in RestoreDocuments : restoreState(obj, "g")
  \/ clear

SpecRestore == JsonInit /\ [][RestoreNext]_vars

----------------------------------------------------------------------------
(* getPropertyOffsets on every schema of up to MaxProperties properties *)

MaxProperties == 3

\* the property schemas: every sequence of up to MaxProperties property types
PropertySchemas ==
  {[i \in 1..n |-> [identifier |-> <<"p1", "p2", "p3", "p4">>[i], type |-> types[i],
                    default |-> 0]] :
     n \in 0..MaxProperties, types \in [1..MaxProperties -> PropertyTypes]}

LayoutInit ==
  /\ \E propertySpecs \in PropertySchemas :
       InitStore(PlainSource(StoreRank, <<>>, propertySpecs), InitTransform)
  /\ InitLayer(StoreRank, <<1, 3, 2, 1>>)

\* a call of getPropertyOffsets(rank, propertySpecs) with the store's schema, as
\* the constructor of AnnotationPropertySerializer makes it
GetPropertyOffsets ==
  /\ lastOp.op = "new"
  /\ lastOp' = With(Call("getPropertyOffsets", Nobody, NoId, FALSE, <<>>, NoRefFired),
                    "result", getPropertyOffsets(rank_, source.properties))
  /\ UNCHANGED <<storeVars, layerVars>>

LayoutNext == GetPropertyOffsets

SpecLayout == LayoutInit /\ [][LayoutNext]_vars

----------------------------------------------------------------------------
(* The geometry codecs: serialize and deserialize of one stored record *)

MaxOffset == 2

\* vectors of finite float32 components
GeometryVectors(rank) ==
  {Ramp(rank), Zeros(rank), [i \in 1..rank |-> "-1"],
   [i \in 1..rank |-> IF i = 1 THEN "0.100000001490116" ELSE "3"]}

\* the records of the four kinds over these vectors
GeometryRecords(rank) ==
  {Point("a", v, <<>>) : v \in GeometryVectors(rank)}
    \cup {TwoVectors(type, "a", va, vb, <<>>) :
            type \in {LINE, AXIS_ALIGNED_BOUNDING_BOX, ELLIPSOID},
            va \in GeometryVectors(rank), vb \in GeometryVectors(rank)}

\* a store of some rank that holds one record, added through a reference that has
\* been released
GeometryInit ==
  /\ \E rank \in 1..StoreRank :
       /\ source = PlainSource(rank, <<>>, <<>>)
       /\ rank_ = rank
       /\ annotationMap \in {<<a>> : a \in GeometryRecords(rank)}
       /\ watchableTransform = Transform(0, rank, 0, <<"x", "y", "z", "t">>)
       /\ curCoordinateTransform = watchableTransform
       /\ InitLayer(rank, <<1, 3, 2, 1>>)
  /\ pending = {}
  /\ changedCount = 1
  /\ references = [id \in {} |-> 0]
  /\ heap = [o \in {} |-> Null]
  /\ handle = [h \in Holders |-> 0]
  /\ lastOp = Call("dispose", "h1", "a", FALSE, <<>>, NoRefFired)

\* new DataView(new ArrayBuffer(n)) whose bytes all hold 170
FilledBuffer(n) == [i \in 1..n |-> 170]

\* handler.serialize(buffer, offset, isLittleEndian, rank, annotation) of the stored
\* record into a buffer that reaches MaxOffset bytes past the record
serialize(offset, isLittleEndian) ==
  LET annotation == annotationMap[1]
      size == offset + GeometrySerializedBytes(annotation.type, rank_) + MaxOffset
  IN /\ lastOp.op = "dispose"
     /\ lastOp' = [op |-> "serialize", offset |-> offset, isLittleEndian |-> isLittleEndian,
                   buffer |-> GeometrySerialize(FilledBuffer(size), offset, isLittleEndian,
                                                rank_, annotation)]
     /\ UNCHANGED <<storeVars, layerVars>>

\* handler.deserialize(buffer, offset, isLittleEndian, rank, id) on the buffer the
\* last call wrote, with the handler of the record's kind
deserialize ==
  /\ lastOp.op = "serialize"
  /\ lastOp' = [op |-> "deserialize", offset |-> lastOp.offset,
                isLittleEndian |-> lastOp.isLittleEndian, buffer |-> lastOp.buffer,
                result |-> GeometryDeserialize(lastOp.buffer, lastOp.offset,
                                               lastOp.isLittleEndian, rank_,
                                               annotationMap[1].type, annotationMap[1].id)]
  /\ UNCHANGED <<storeVars, layerVars>>

GeometryNext ==
  \/ \E offset \in 0..MaxOffset, isLittleEndian \in BOOLEAN :
       serialize(offset, isLittleEndian)
  \/ deserialize

SpecGeometry == GeometryInit /\ [][GeometryNext]_vars

----------------------------------------------------------------------------
(* Properties of the store *)

\* how often the last call invoked the `changed` listener of holder h's reference
Notified(h) ==
  IF handle[h] \in DOMAIN lastOp.refFired THEN lastOp.refFired[handle[h]] ELSE 0

Holds(h) == handle[h] # 0

\* the reference object holder h holds
Ref(h) == heap[handle[h]]

\* C1: toJSON() never contains a record whose id is pending, and a commit of a
\* pending id makes the next toJSON() contain that id.
C1_PendingHiddenUntilCommit ==
  /\ [](JsonIds(toJSON) \cap pending = {})
  /\ [][(lastOp'.op = "commit" /\ lastOp'.id \in pending)
          => lastOp'.id \in JsonIds(toJSON')]_vars

\* a commit has just made a record visible while another one is still pending and
\* hidden
C1_Witness ==
  /\ lastOp.op = "commit"
  /\ lastOp.id \in JsonIds(toJSON)
  /\ pending # {}
  /\ pending \subseteq MapKeys(annotationMap) \ JsonIds(toJSON)

C7_ReferenceNotified ==
  [][(lastOp'.op \in {"add", "update", "delete"} /\ ~lastOp'.thrown
      /\ annotationMap' # annotationMap /\ lastOp'.id \in DOMAIN references)
       => references[lastOp'.id] \in DOMAIN lastOp'.refFired]_vars

\* C8: one registration per id, shared by all holders of the id and present exactly
\* while it has holders; a handle created by getReference shows the current record
\* or null.
C8_OneRegistrationPerId ==
  /\ \A id \in DOMAIN references :
       /\ references[id] \in DOMAIN heap
       /\ heap[references[id]].id = id
  /\ \A o \in DOMAIN heap :
       /\ heap[o].id \in DOMAIN references /\ references[heap[o].id] = o
       /\ heap[o].refCount = Cardinality({h \in Holders : handle[h] = o})
       /\ heap[o].refCount > 0
  /\ \A h \in Holders : Holds(h) => handle[h] \in DOMAIN heap
  /\ (lastOp.op = "getReference" /\ Ref(lastOp.by).refCount = 1)
       => Ref(lastOp.by).value = GetOrNull(annotationMap, lastOp.id)

\* a second getReference for an id has returned the handle the first holder holds
C8_Witness ==
  /\ lastOp.op = "getReference"
  /\ \A h \in Holders : handle[h] = references[lastOp.id]
  /\ heap[references[lastOp.id]].refCount = 2

\* C9: add with an id that is already in the store throws, and leaves the records,
\* the pending set and the change counter as they were and dispatches nothing.
C9_DuplicateAddRejected ==
  [][(lastOp'.op = "add" /\ lastOp'.id \in MapKeys(annotationMap))
       => /\ lastOp'.thrown
          /\ annotationMap' = annotationMap
          /\ pending' = pending
          /\ changedCount' = changedCount
          /\ lastOp'.fired = <<>>
          /\ lastOp'.refFired = NoRefFired]_vars

\* an add has thrown on a store that holds the id
C9_Witness ==
  lastOp.op = "add" /\ lastOp.thrown /\ lastOp.id \in MapKeys(annotationMap)

\* C10: update through a reference whose value is null throws, and leaves the
\* records, the pending set, the reference and the change counter as they were and
\* dispatches nothing.
C10_UpdateOfDeletedRejected ==
  [][(lastOp'.op = "update" /\ heap[handle[lastOp'.by]].value = Null)
       => /\ lastOp'.thrown
          /\ annotationMap' = annotationMap
          /\ pending' = pending
          /\ heap' = heap
          /\ changedCount' = changedCount
          /\ lastOp'.fired = <<>>
          /\ lastOp'.refFired = NoRefFired]_vars

\* an update has thrown on a reference whose value is null
C10_Witness ==
  lastOp.op = "update" /\ lastOp.thrown /\ Ref(lastOp.by).value = Null

----------------------------------------------------------------------------
(* Properties of the snapshot, the draw and the resolver *)

\* the ids a snapshot lists
SnapshotIds(snapshot) ==
  UNION {SeqToSet(snapshot.typeToIds[t]) : t \in 1..Len(annotationTypes)}

\* the ids of the records of m of the kind with index t that pass the filter, in the
\* order of m
ListedIds(m, states, t) ==
  MapSeq(SelectSeq(m, LAMBDA annotation :
                        /\ annotation.type = annotationTypes[t]
                        /\ segmentationFilter(states, annotation)),
         LAMBDA annotation : annotation.id)

C3_PickingInverse ==
  lastOp.op = "updateMouseState"
    => \A d \in DrawnAt(drawn, pickIdsPerInstance, lastOp.pickedOffset) :
         /\ ~IsUndefined(lastOp.resolved)
         /\ lastOp.resolved.annotationType = d.annotationType
         /\ lastOp.resolved.pickedAnnotationId = d.id

\* the value of `offset` in serializeAnnotations when it serialized the record with
\* 0-based index k of the kind with index t of the snapshot: typeToOffset of the kind,
\* advanced k times by geometryBytes + serializedPropertiesBytes
WrittenAt(snapshot, t, k, serializer) ==
  snapshot.typeToOffset[t] + k * SerializedStride(t, serializer)

\* C4: the byte location updateMouseState computes for a picked record is the offset
\* at which serializeAnnotations wrote that record.
C4_ResolverStride ==
  (lastOp.op = "updateMouseState" /\ ~IsUndefined(lastOp.resolved))
    => lastOp.resolved.pickedAnnotationBufferOffset
         = WrittenAt(serializedAnnotations, lastOp.resolved.annotationType + 1,
                     lastOp.resolved.instanceIndex, source.annotationPropertySerializer)

\* C5: a migration gives every vector of every stored record the new rank, component
\* d being the old component at the old dimension with the identity of new dimension
\* d, and 0 when no old dimension within the old rank has that identity.
C5_RankMigration ==
  [][(lastOp'.op = "ensureUpdated" /\ lastOp'.fired # <<>>)
       => LET dims == NewToOldDims(watchableTransform', curCoordinateTransform)
          IN \A i \in 1..Len(annotationMap) :
               \A f \in SeqToSet(VectorFields(annotationMap[i].type)) :
                 /\ Len(annotationMap'[i][f]) = rank_'
                 /\ \A d \in 1..rank_' :
                      annotationMap'[i][f][d]
                        = IF dims[d] = -1 THEN "0"
                          ELSE annotationMap[i][f][dims[d] + 1]]_vars

----------------------------------------------------------------------------
(* Properties of update, delete, commit and restoreState *)

\* C11: update(reference, annotation) with annotation.id different from reference.id
\* is rejected: it throws, stores nothing under a key other than reference.id and
\* leaves the records, the pending set, the references and the change counter as
\* they were.
C11_UpdateIdMismatchRejected ==
  [][(lastOp'.op = "update" /\ lastOp'.id # heap[handle[lastOp'.by]].id)
       => /\ lastOp'.thrown
          /\ MapKeys(annotationMap') \ MapKeys(annotationMap)
               \subseteq {heap[handle[lastOp'.by]].id}
          /\ annotationMap' = annotationMap
          /\ pending' = pending
          /\ heap' = heap
          /\ changedCount' = changedCount]_vars

\* C12: delete through a reference whose value is already null changes neither the
\* records, the pending set, the references nor the change counter and dispatches
\* nothing; delete through any other reference removes the record with the
\* reference's id, takes the id out of the pending set and sets the reference's
\* value to null.
C12_DeleteIdempotent ==
  [][lastOp'.op = "delete"
       => LET o == handle[lastOp'.by]
              id == heap[o].id
          IN IF heap[o].value = Null
             THEN /\ annotationMap' = annotationMap
                  /\ pending' = pending
                  /\ changedCount' = changedCount
                  /\ heap' = heap
                  /\ ~lastOp'.thrown
                  /\ lastOp'.fired = <<>>
                  /\ lastOp'.refFired = NoRefFired
             ELSE /\ annotationMap' = MapDelete(annotationMap, id)
                  /\ id \notin MapKeys(annotationMap')
                  /\ pending' = pending \ {id}
                  /\ heap'[o].value = Null]_vars

\* a delete through a reference that was already null has returned without a
\* dispatch, on a store that still holds another record
C12_Witness ==
  /\ lastOp.op = "delete" /\ lastOp.fired = <<>>
  /\ Ref(lastOp.by).value = Null
  /\ lastOp.id \notin MapKeys(annotationMap)
  /\ annotationMap # <<>>

\* C13: delete through a reference whose value is already null throws.
C13_DeleteOfDeletedThrows ==
  [][(lastOp'.op = "delete" /\ heap[handle[lastOp'.by]].value = Null)
       => lastOp'.thrown]_vars

\* C14: commit takes the reference's id out of the pending set and changes nothing
\* else: the records, the reference objects, the registrations and the change
\* counter stay and nothing is dispatched; when the id is not pending the pending
\* set stays as well.
C14_CommitIdempotent ==
  [][lastOp'.op = "commit"
       => /\ pending' = pending \ {heap[handle[lastOp'.by]].id}
          /\ (heap[handle[lastOp'.by]].id \notin pending => pending' = pending)
          /\ annotationMap' = annotationMap
          /\ rank_' = rank_
          /\ heap' = heap
          /\ references' = references
          /\ changedCount' = changedCount
          /\ ~lastOp'.thrown
          /\ lastOp'.fired = <<>>
          /\ lastOp'.refFired = NoRefFired]_vars

\* a commit through a reference that shows its record, which is stored and not
\* pending, while another record is still pending
C14_Witness ==
  /\ lastOp.op = "commit"
  /\ Ref(lastOp.by).value # Null
  /\ Ref(lastOp.by).value = GetOrNull(annotationMap, lastOp.id)
  /\ lastOp.id \notin pending
  /\ pending # {}

\* the elements of the document the last restoreState was given
Items(op) == IF op.obj.defined THEN op.obj.items ELSE <<>>

\* the stored record r is what restoreAnnotation makes of the element x of a
\* document: its id (or a generated one for an empty id), kind, vectors rounded to
\* float32, and properties (the schema's defaults when the element has none)
RestoredFrom(r, x, schema) ==
  /\ x.id \in {r.id, ""}
  /\ x.type = TypeName(r.type)
  /\ \A f \in SeqToSet(VectorFields(r.type)) :
       /\ Len(r[f]) = Len(x[f])
       /\ \A d \in 1..Len(r[f]) : r[f][d] = Fround(x[f][d])
  /\ r.properties = IF Has(x, "props") THEN x.props
                    ELSE [i \in 1..Len(schema.properties) |-> schema.properties[i].default]

C16_FailedRestoreAppliesNothing ==
  [][(lastOp'.op = "restoreState" /\ lastOp'.thrown)
       => \/ annotationMap' = annotationMap
          \/ annotationMap' = <<>>]_vars

\* the per-relationship segment lists of a record, none being one empty list each
SegmentsOf(annotation, schema) ==
  IF Has(annotation, "relatedSegments") THEN annotation.relatedSegments
  ELSE [i \in 1..Len(schema.relationships) |-> <<>>]

\* C17: restoreState of the store's own toJSON() does not throw and leaves the
\* records that were not pending, in their order, each with its id, kind, vectors,
\* property values and per-relationship segment lists; the pending records are gone.
C17_JsonRoundTrip ==
  [][(lastOp'.op = "restoreState" /\ lastOp'.obj = [defined |-> TRUE, items |-> toJSON])
       => LET committed == SelectSeq(annotationMap, LAMBDA a : a.id \notin pending)
          IN /\ ~lastOp'.thrown
             /\ Len(annotationMap') = Len(committed)
             /\ \A i \in 1..Len(committed) :
                  LET a == committed[i]
                      b == annotationMap'[i]
                  IN /\ b.id = a.id
                     /\ b.type = a.type
                     /\ \A f \in SeqToSet(VectorFields(a.type)) : b[f] = a[f]
                     /\ b.properties = a.properties
                     /\ SegmentsOf(b, Schema) = SegmentsOf(a, Schema)
             /\ MapKeys(annotationMap') \cap pending = {}
             /\ pending' = {}]_vars

\* a store has been restored from an export of two records, one of them with
\* segments, a description and a property value that is not the default
C17_Witness ==
  /\ lastOp.op = "restoreState" /\ ~lastOp.thrown
  /\ lastOp.obj = [defined |-> TRUE, items |-> toJSON]
  /\ Len(annotationMap) = 2
  /\ Len(source.relationships) = 1
  /\ \E i \in 1..Len(annotationMap) :
       /\ Has(annotationMap[i], "description")
       /\ annotationMap[i].relatedSegments[1] # <<>>
       /\ annotationMap[i].properties = <<9>>

----------------------------------------------------------------------------
(* Properties of the property layout *)

\* the sum of the declared byte sizes of the properties of a schema
RECURSIVE DeclaredBytes(_, _)
DeclaredBytes(propertySpecs, i) ==
  IF i > Len(propertySpecs) THEN 0
  ELSE PropertySerializedBytes(propertySpecs[i].type) + DeclaredBytes(propertySpecs, i + 1)

\* serializedBytes minus the sum of the declared byte sizes
PaddingBytes == lastOp.result.serializedBytes - DeclaredBytes(source.properties, 1)

\* the largest alignment among the properties of the schema
MaxAlignment ==
  CHOOSE a \in {1, 2, 4} :
    /\ \E i \in 1..Len(source.properties) : PropertyAlignment(source.properties[i].type) = a
    /\ \A i \in 1..Len(source.properties) : PropertyAlignment(source.properties[i].type) <= a

\* C19 (amended): the padding of a layout is the padding that brings the sum of the
\* declared byte sizes to the next multiple of 4, so it is less than 4; no byte
\* is lost between two properties.
C19_PaddingBelowFour ==
  lastOp.op = "getPropertyOffsets"
    => /\ PaddingBytes >= 0
       /\ PaddingBytes < 4
       /\ (DeclaredBytes(source.properties, 1) + PaddingBytes) % 4 = 0

\* a layout of three properties of three different alignments, declared in ascending
\* order of alignment, with padding at its end
C19_Witness ==
  /\ lastOp.op = "getPropertyOffsets"
  /\ Len(source.properties) = 3
  /\ source.properties[1].type = "uint8"
  /\ source.properties[2].type = "uint16"
  /\ source.properties[3].type = "float32"
  /\ PaddingBytes = 1

\* C19: the padding of a layout is less than the largest alignment among the
\* properties of the schema.
C19_PaddingBelowMaxAlignment ==
  (lastOp.op = "getPropertyOffsets" /\ Len(source.properties) > 0)
    => PaddingBytes < MaxAlignment

\* C20: serializedBytes is a multiple of 4 and the offset of every property is a
\* multiple of the alignment of the property's type.
C20_LayoutAligned ==
  lastOp.op = "getPropertyOffsets"
    => /\ lastOp.result.serializedBytes % 4 = 0
       /\ Len(lastOp.result.offsets) = Len(source.properties)
       /\ \A i \in 1..Len(source.properties) :
            /\ lastOp.result.offsets[i] >= 0
            /\ lastOp.result.offsets[i] % PropertyAlignment(source.properties[i].type) = 0

\* a layout in which a 4-aligned property declared after two narrower ones is
\* placed first
C20_Witness ==
  /\ lastOp.op = "getPropertyOffsets"
  /\ Len(source.properties) = 3
  /\ source.properties[1].type = "rgb"
  /\ source.properties[2].type = "int16"
  /\ source.properties[3].type = "uint32"
  /\ lastOp.result.offsets = <<6, 4, 0>>
  /\ lastOp.result.serializedBytes = 12

----------------------------------------------------------------------------
(* Properties of the geometry codecs *)

\* C18: deserialize applied to the bytes serialize wrote, at the same offset, byte
\* order and rank, returns a record of the kind and id of the serialized record
\* whose vectors have rank components equal to those of the serialized record; and
\* serialize leaves every byte outside [offset, offset + serializedBytes(rank)) as it
\* was and the length of the buffer unchanged.
C18_GeometryRoundTrip ==
  LET a == annotationMap[1]
      bytes == GeometrySerializedBytes(a.type, rank_)
  IN /\ lastOp.op \in {"serialize", "deserialize"}
          => /\ Len(lastOp.buffer) = lastOp.offset + bytes + MaxOffset
             /\ \A i \in 1..Len(lastOp.buffer) :
                  (i <= lastOp.offset \/ i > lastOp.offset + bytes)
                    => lastOp.buffer[i] = 170
     /\ lastOp.op = "deserialize"
          => /\ lastOp.result.type = a.type
             /\ lastOp.result.id = a.id
             /\ \A f \in SeqToSet(VectorFields(a.type)) :
                  /\ Len(lastOp.result[f]) = rank_
                  /\ \A d \in 1..rank_ : lastOp.result[f][d] = a[f][d]

\* an ellipsoid of the largest rank, with two different vectors, read back from a
\* nonzero offset of a little-endian buffer
C18_Witness ==
  /\ lastOp.op = "deserialize"
  /\ lastOp.offset > 0
  /\ lastOp.isLittleEndian
  /\ rank_ = StoreRank
  /\ annotationMap[1].type = ELLIPSOID
  /\ annotationMap[1].center # annotationMap[1].radii
  /\ lastOp.result.radii = annotationMap[1].radii

\* C21: properties are placed in descending order of alignment, ties in declaration
\* order: when property i has a larger alignment than property j, or the same
\* alignment and i < j, then offsets[i] < offsets[j]; and the schema
\* [uint8, float32] gets offsets [4, 0] and serializedBytes 8.
C21_DescendingAlignmentOrder ==
  lastOp.op = "getPropertyOffsets"
    => LET specs == source.properties
           al(i) == PropertyAlignment(specs[i].type)
       IN /\ \A i, j \in 1..Len(specs) :
               (al(i) > al(j) \/ (al(i) = al(j) /\ i < j))
                 => lastOp.result.offsets[i] < lastOp.result.offsets[j]
          /\ (Len(specs) = 2 /\ specs[1].type = "uint8" /\ specs[2].type = "float32")
               => /\ lastOp.result.offsets = <<4, 0>>
                  /\ lastOp.result.serializedBytes = 8

\* the layout of [uint8, float32]: the float32 first, the uint8 behind it
C21_Witness ==
  /\ lastOp.op = "getPropertyOffsets"
  /\ Len(source.properties) = 2
  /\ source.properties[1].type = "uint8"
  /\ source.properties[2].type = "float32"
  /\ lastOp.result.offsets[2] < lastOp.result.offsets[1]

----------------------------------------------------------------------------
(* Properties of the snapshot and of the layer's cache *)

\* C22: the snapshot the layer holds is not changed by a later add, update, delete,
\* clear or restoreState on the store: its data bytes, typeToIds, typeToOffset and
\* typeToIdMaps stay what serialization made them.
C22_SnapshotFrozen ==
  [][(lastOp'.op \in {"add", "update", "delete", "clear", "restoreState"}
      /\ ~IsUndefined(serializedAnnotations))
       => /\ ~IsUndefined(serializedAnnotations')
          /\ serializedAnnotations'.data = serializedAnnotations.data
          /\ serializedAnnotations'.typeToIds = serializedAnnotations.typeToIds
          /\ serializedAnnotations'.typeToOffset = serializedAnnotations.typeToOffset
          /\ serializedAnnotations'.typeToIdMaps = serializedAnnotations.typeToIdMaps]_vars

\* a snapshot that lists a record the store no longer holds, after an operation that
\* changed the store
C22_Witness ==
  /\ lastOp.op \in {"delete", "clear", "restoreState", "update"}
  /\ "changed" \in SeqToSet(lastOp.fired)
  /\ ~IsUndefined(serializedAnnotations)
  /\ SnapshotIds(serializedAnnotations) \ MapKeys(annotationMap) # {}
  /\ Len(serializedAnnotations.data) > 0

\* C23: a draw re-serializes the store only when the generation the layer recorded
\* differs from the store's change counter, and a draw that directly follows a
\* draw, with no store or filter change between them, does not re-serialize.
C23_AtMostOneReencoding ==
  [][lastOp'.op = "draw"
       => /\ lastOp'.serialized => generation # changedCount'
          /\ lastOp.op = "draw" => ~lastOp'.serialized
          /\ ~lastOp'.serialized
               => /\ serializedAnnotations' = serializedAnnotations
                  /\ numPickIds' = numPickIds]_vars

\* a draw of a store that holds records has reused the snapshot of the draw before
C23_Witness ==
  /\ lastOp.op = "draw" /\ ~lastOp.serialized
  /\ generation = changedCount
  /\ ~IsUndefined(serializedAnnotations)
  /\ SnapshotIds(serializedAnnotations) # {}

\* count * (geometryBytes(rank) + propertyBytes) of the kind with index t of a
\* snapshot, rounded up to a multiple of 4
KindBytes(snapshot, t, serializer) ==
  LET bytes == Len(snapshot.typeToIds[t])
                 * (GeometrySerializedBytes(annotationTypes[t], serializer.rank)
                      + serializer.serializedBytes)
  IN 4 * ((bytes + 3) \div 4)

\* the byte range of the record with 0-based index k of the kind with index t
RecordRange(snapshot, t, k, serializer) ==
  LET stride == GeometrySerializedBytes(annotationTypes[t], serializer.rank)
                  + serializer.serializedBytes
  IN (snapshot.typeToOffset[t] + k * stride)
       ..(snapshot.typeToOffset[t] + (k + 1) * stride - 1)

\* C24: typeToOffset of each kind, in the order Point, Line, BoundingBox, Ellipsoid,
\* is the sum over the preceding kinds of count * (geometryBytes + propertyBytes)
\* rounded up to a multiple of 4, the buffer length is that sum over all kinds, and
\* the byte ranges of two different records lie within the buffer and do not overlap.
C24_OffsetsAndRanges ==
  ~IsUndefined(serializedAnnotations)
    => LET snapshot == serializedAnnotations
           serializer == source.annotationPropertySerializer
           kinds == 1..Len(annotationTypes)
           sizes == [t \in kinds |-> KindBytes(snapshot, t, serializer)]
           places == {<<t, k>> \in kinds \X (0..MaxPerKind) :
                        k < Len(snapshot.typeToIds[t])}
       IN /\ \A t \in kinds : snapshot.typeToOffset[t] = SumTo(sizes, t - 1)
          /\ Len(snapshot.data) = SumTo(sizes, Len(annotationTypes))
          /\ \A p \in places :
               /\ RecordRange(snapshot, p[1], p[2], serializer) # {}
               /\ RecordRange(snapshot, p[1], p[2], serializer)
                    \subseteq 0..(Len(snapshot.data) - 1)
          /\ \A p, q \in places :
               p # q => RecordRange(snapshot, p[1], p[2], serializer)
                          \cap RecordRange(snapshot, q[1], q[2], serializer) = {}

\* a snapshot that holds records of all four kinds, two of one of them, has been
\* drawn from its offsets
C24_Witness ==
  /\ ~IsUndefined(serializedAnnotations)
  /\ drawn.registered
  /\ \A t \in 1..Len(annotationTypes) :
       drawn.contexts[t].bufferOffset = serializedAnnotations.typeToOffset[t]
  /\ \A t \in 1..Len(annotationTypes) : Len(serializedAnnotations.typeToIds[t]) >= 1
  /\ Len(serializedAnnotations.typeToIds[2]) = 2
  /\ serializedAnnotations.typeToOffset[3] > serializedAnnotations.typeToOffset[2]

\* C25: in a snapshot built from the store, typeToIds of each kind lists the ids of
\* the serialized records of that kind in the store's iteration order, and
\* typeToIdMaps of the kind maps each listed id to its index in the list and has as
\* many entries as the list.
C25_IdListsAndMaps ==
  [][(lastOp'.op = "draw" /\ lastOp'.serialized)
       => \A t \in 1..Len(annotationTypes) :
            LET ids == serializedAnnotations'.typeToIds[t]
                idMap == serializedAnnotations'.typeToIdMaps[t]
                ofKind == SelectSeq(annotationMap',
                                    LAMBDA a : /\ a.type = annotationTypes[t]
                                               /\ segmentationFilter(segmentationStates', a))
            IN /\ Len(ids) = Len(ofKind)
               /\ \A i \in 1..Len(ids) : ids[i] = ofKind[i].id
               /\ DOMAIN idMap = {ids[i] : i \in 1..Len(ids)}
               /\ \A id \in DOMAIN idMap : ids[idMap[id] + 1] = id
               /\ Cardinality(DOMAIN idMap) = Len(ids)]_vars

\* a snapshot of a store that holds two records of one kind, the one with the
\* generated id added first
C25_Witness ==
  /\ lastOp.op = "draw" /\ lastOp.serialized
  /\ \E t \in 1..Len(annotationTypes) :
       /\ serializedAnnotations.typeToIds[t] = <<"g", "a">>
       /\ serializedAnnotations.typeToIdMaps[t]["a"] = 1

----------------------------------------------------------------------------
(* Properties of the store's records, ids and references *)

\* C26: in every reachable state of a store, every record's geometric vectors
\* have exactly rank components and its properties list has as many entries as
\* the schema has properties, whichever operation introduced the record
C26_RecordsMatchSchema ==
  \A i \in 1..Len(annotationMap) :
    LET annotation == annotationMap[i]
        fields == VectorFields(annotation.type)
    IN /\ \A k \in 1..Len(fields) : Len(annotation[fields[k]]) = rank_
       /\ Len(annotation.properties) = Len(source.properties)

\* C27: restoreState given an array in which two records carry the same id fails,
\* instead of keeping one of the two records
C27_DuplicateIdRejected ==
  [][(/\ lastOp'.op = "restoreState"
      /\ lastOp'.obj.defined
      /\ \E i, j \in 1..Len(lastOp'.obj.items) :
           /\ i < j
           /\ lastOp'.obj.items[i].id # NoId
           /\ lastOp'.obj.items[i].id = lastOp'.obj.items[j].id)
       => lastOp'.thrown]_vars

\* C28: after any sequence of getReference/add/update/delete/clear/restoreState,
\* every live reference has value null exactly when the store has no record with
\* the reference's id, and otherwise its value is the record stored under that id
C28_ReferencesFollowStore ==
  \A id \in DOMAIN references :
    LET r == heap[references[id]]
    IN IF MapHas(annotationMap, r.id)
       THEN r.value = MapGet(annotationMap, r.id)
       ELSE r.value = Null

----------------------------------------------------------------------------
(* Properties of the notifications and of the export a listener takes *)

\* C29: during add(annotation, commit=false), when the collection-changed and
\* record-added notifications are delivered the id is already marked pending: a
\* listener that calls toJSON() from inside the notification does not see the
\* uncommitted record
C29_PendingBeforeNotification ==
  [][(lastOp'.op = "add" /\ ~lastOp'.thrown /\ ~lastOp'.commit)
       => lastOp'.id \notin JsonIds(lastOp'.exported)]_vars

\* C30: every store operation that changes what toJSON() returns fires the
\* collection-changed signal, so that a listener re-exporting on each change
\* never holds an export that differs from the current toJSON()
C30_ExportChangeSignalled ==
  [][toJSON' # toJSON => "changed" \in SeqToSet(lastOp'.fired)]_vars

----------------------------------------------------------------------------
(* Properties of the cache, the serializer's rank and the picks *)

\* C31: whenever updateBuffer() returns, the cached serializedAnnotations equals
\* a fresh serialization of the store's current records under the current
\* segmentation filter, after any sequence of store operations (a restoreState
\* that throws part-way included) and filter changes
C31_CacheCoherent ==
  [][(lastOp'.op = "draw" /\ curRank' # 0)
       => serializedAnnotations'
            = serializeAnnotationSet(annotationMap', source'.annotationPropertySerializer,
                                     segmentationStates')]_vars

\* C32: the rank used by the binary serializer (annotationPropertySerializer.rank,
\* fixed when the store is constructed) always equals the store's current rank,
\* also after LocalAnnotationSource has migrated its records to a new rank
C32_SerializerRankIsStoreRank ==
  source.annotationPropertySerializer.rank = rank_

\* C33: a pick offset issued by one draw is resolved against the snapshot that this
\* draw enumerated: when the store is mutated and another draw of the shared layer
\* re-serializes before the pick is handled, updateMouseState still returns the id
\* that was drawn at that offset
C33_PickResolvedAgainstDrawnSnapshot ==
  lastOp.op = "updateMouseState"
    => \A d \in DrawnAt(drawn, pickIdsPerInstance, lastOp.pickedOffset) :
         /\ ~IsUndefined(lastOp.resolved)
         /\ lastOp.resolved.pickedAnnotationId = d.id

----------------------------------------------------------------------------
(* Properties of the change counter, of restoreAnnotation and of ensureUpdated *)

\* the operations of C34 that succeeded: they did not throw, and a delete found a
\* record to delete
Successful ==
  /\ lastOp'.op \in {"add", "update", "delete", "clear", "restoreState"}
  /\ ~lastOp'.thrown
  /\ lastOp'.op = "delete" => heap[handle[lastOp'.by]].value # Null

\* C34: the store's change counter never decreases, and each successful add,
\* update, delete, clear or restoreState advances it by exactly one
C34_CounterAdvancesByOne ==
  [][/\ changedCount' >= changedCount
     /\ Successful => changedCount' = changedCount + 1]_vars

C34_Witness ==
  /\ lastOp.op = "restoreState" /\ ~lastOp.thrown
  /\ changedCount = 3
  /\ Len(annotationMap) = 1

\* a segments member has one list per relationship, or is a flat list of ids for
\* a schema of exactly one relationship
SegmentsArityFits(segs, relationships) ==
  \/ ~segs.flat /\ Len(segs.items) = Len(relationships)
  \/ (segs.flat \/ Len(segs.items) = 0) /\ Len(relationships) = 1

\* a record of a restored document that has to be rejected: its props length
\* differs from the number of schema properties, or fitsOrEmpty is false of its
\* segments member
Malformed(x, fitsOrEmpty(_)) ==
  \/ Has(x, "props") /\ Len(x.props) # Len(source.properties)
  \/ Has(x, "segments") /\ ~fitsOrEmpty(x.segments)

\* the absent members of the restored document's records got their defaults
DefaultsFilled ==
  \A i \in 1..Len(lastOp'.obj.items) :
    LET x == lastOp'.obj.items[i]
        r == annotationMap'[i]
    IN /\ ~Has(x, "props")
            => r.properties = MapSeq(source.properties, LAMBDA p : p.default)
       /\ ~Has(x, "segments")
            => r.relatedSegments = [k \in 1..Len(source.relationships) |-> <<>>]

\* C35: restoreState rejects every record whose props array length differs from
\* the number of schema properties, and every record whose non-empty segments
\* array does not have exactly one entry per relationship (a flat list of ids being
\* accepted only when the schema has exactly one relationship); an empty segments
\* array is accepted as no segments; an absent props or segments field is replaced
\* by the schema defaults or one empty list per relationship
C35_MalformedRejected ==
  [][(lastOp'.op = "restoreState" /\ lastOp'.obj.defined)
       => /\ (\E i \in 1..Len(lastOp'.obj.items) :
                Malformed(lastOp'.obj.items[i],
                          LAMBDA segs : \/ Len(segs.items) = 0
                                        \/ SegmentsArityFits(segs, source.relationships)))
               => lastOp'.thrown
          /\ ~lastOp'.thrown => DefaultsFilled]_vars

\* a document with a list of one relationship's segments for a schema of two has
\* been rejected, and one without props and segments has been restored
C35_Witness ==
  /\ lastOp.op = "restoreState" /\ lastOp.obj.defined
  /\ Len(source.relationships) = 2
  /\ Len(lastOp.obj.items) = 1
  /\ Has(lastOp.obj.items[1], "segments")
  /\ ~Has(lastOp.obj.items[1], "props")
  /\ lastOp.obj.items[1].segments = [flat |-> FALSE, items |-> <<<<"1">>>>]
  /\ lastOp.thrown

\* C35 as stated: every segments array that does not have exactly one entry per
\* relationship is rejected, the empty one included
C35_EveryArityRejected ==
  [][(lastOp'.op = "restoreState" /\ lastOp'.obj.defined)
       => ((\E i \in 1..Len(lastOp'.obj.items) :
              Malformed(lastOp'.obj.items[i],
                        LAMBDA segs : SegmentsArityFits(segs, source.relationships)))
             => lastOp'.thrown)]_vars

\* the transform has the source rank and, over that rank, the dimension
\* identities of the transform last seen
SameDimensions(transform, cur) ==
  /\ transform.sourceRank = cur.sourceRank
  /\ Slice(transform.inputSpace.ids, transform.sourceRank)
       = Slice(cur.inputSpace.ids, transform.sourceRank)

\* C36: ensureUpdated re-projects the stored geometry only when the upstream
\* transform has actually changed: when the new transform has the same source rank
\* and the same dimension identities over that rank, every stored vector, the rank
\* and the change counter are left unchanged; and the ensureUpdated of an operation
\* that follows (a draw, an add), for which the transform object is the one last
\* seen, changes nothing
C36_NoReprojectionWithoutChange ==
  [][/\ (lastOp'.op = "ensureUpdated"
           /\ SameDimensions(watchableTransform', curCoordinateTransform))
          => /\ annotationMap' = annotationMap
             /\ rank_' = rank_
             /\ changedCount' = changedCount
     /\ lastOp'.op = "draw"
          => /\ annotationMap' = annotationMap
             /\ rank_' = rank_
             /\ changedCount' = changedCount
     /\ (lastOp'.op = "add" /\ ~lastOp'.thrown)
          => /\ \A i \in 1..Len(annotationMap) : annotationMap'[i] = annotationMap[i]
             /\ rank_' = rank_
             /\ changedCount' = changedCount + 1]_vars

\* the transform of rank 2 over x, z has been replaced by another object with
\* another input space of the same identities, on a store that holds a record
C36_Witness ==
  /\ lastOp.op = "ensureUpdated"
  /\ lastOp.fired = <<>>
  /\ watchableTransform.obj = 4
  /\ curCoordinateTransform.obj = 4
  /\ Len(annotationMap) > 0
  /\ changedCount > 1

----------------------------------------------------------------------------
(* Properties of the pending set and of the property layout *)

\* C37: after any sequence of completed store operations (add with or without
\* commit, commit, update, delete, clear, restoreState), every id in the pending
\* set is the key of a record currently in the store
C37_PendingIdsAreStored ==
  \A id \in pending : MapHas(annotationMap, id)

\* one of two pending records has been deleted
C37_Witness ==
  /\ lastOp.op = "delete"
  /\ lastOp.fired # <<>>
  /\ pending = {"g"}
  /\ Len(annotationMap) = 1

\* C38: for any property schema (schemas containing int8, whose declared size is 2
\* with alignment 1, included), the byte ranges [offsets[i], offsets[i] +
\* serializedBytes(type i)) computed by getPropertyOffsets are pairwise disjoint
\* and all lie inside [0, serializedBytes); for an empty schema serializedBytes is 0
C38_PropertyRangesDisjoint ==
  lastOp.op = "getPropertyOffsets"
    => LET n == Len(source.properties)
           first(i) == lastOp.result.offsets[i]
           end(i) == first(i) + PropertySerializedBytes(source.properties[i].type)
       IN /\ \A i \in 1..n : 0 <= first(i) /\ end(i) <= lastOp.result.serializedBytes
          /\ \A i, j \in 1..n : i # j => (end(i) <= first(j) \/ end(j) <= first(i))
          /\ n = 0 => lastOp.result.serializedBytes = 0

\* an int8 declared first takes the bytes 0 and 1, the uint8 after it byte 2
C38_Witness ==
  /\ lastOp.op = "getPropertyOffsets"
  /\ Len(source.properties) = 2
  /\ source.properties[1].type = "int8"
  /\ source.properties[2].type = "uint8"
  /\ lastOp.result.offsets = <<0, 2>>
  /\ lastOp.result.serializedBytes = 4

====
